---- MODULE Spec2Model ----
(***************************************************************************)
(* A model of http-rs: the byte transport (src/src/connection.rs), the     *)
(* HTTP/1.1 request parser (src/src/request.rs, src/src/header.rs), the    *)
(* content dispatcher, the response construction and the per-connection    *)
(* state machine (src/src/server.rs), and the rule statements              *)
(* (src/src/rules/rule.rs).                                                *)
(*                                                                         *)
(* A byte is a one-character string; a byte sequence (Vec<u8>, &[u8], and  *)
(* the String of a request header) is a sequence of bytes.  Response       *)
(* header names and values are strings, as the keys of the HashMap the     *)
(* response keeps them in.                                                 *)
(***************************************************************************)
EXTENDS Integers, Sequences, FiniteSets, TLC

\* ------------------------------------------------------------------------
\* Bytes
\* ------------------------------------------------------------------------

CR == "\r"

LF == "\n"

SP == " "

HT == "\t"

COLON == ":"

\* A byte that is part of no valid UTF-8 sequence (0xFF).
BadByte == "<FF>"

\* A non-ASCII letter (U+00E9), one char of a String.
NonAsciiLetter == "<U+00E9>"

CRLF == <<CR, LF>>

AsciiUpper == <<"A", "B", "C", "D", "E", "F", "G", "H", "I", "J", "K", "L", "M", "N", "O", "P", "Q", "R", "S", "T", "U", "V", "W", "X", "Y", "Z">>

AsciiLower == <<"a", "b", "c", "d", "e", "f", "g", "h", "i", "j", "k", "l", "m", "n", "o", "p", "q", "r", "s", "t", "u", "v", "w", "x", "y", "z">>

AsciiDigits == <<"0", "1", "2", "3", "4", "5", "6", "7", "8", "9">>

Range(s) == {s[i] : i \in 1..Len(s)}

\* u8::to_ascii_lowercase, as eq_ignore_ascii_case applies it.
ToAsciiLower(c) == IF c \in Range(AsciiUpper) THEN AsciiLower[CHOOSE i \in 1..26 : AsciiUpper[i] = c] ELSE c

\* str::eq_ignore_ascii_case
eq_ignore_ascii_case(a, b) == /\ Len(a) = Len(b)
                              /\ \A i \in 1..Len(a) : ToAsciiLower(a[i]) = ToAsciiLower(b[i])

\* char::is_alphanumeric: Unicode letters and digits, not only the ASCII ones.
is_alphanumeric(c) == c \in Range(AsciiUpper) \cup Range(AsciiLower) \cup Range(AsciiDigits) \cup {NonAsciiLetter}

TOKEN_SPECIAL_CHARS == {"!", "#", "%", "&", "'", "*", "+", "-", ".", "^", "_", "<GRAVE>", "|", "~"}

is_valid_token(value) == \A i \in 1..Len(value) : value[i] \in TOKEN_SPECIAL_CHARS \/ is_alphanumeric(value[i])

\* std::str::from_utf8(..).is_ok()
IsUtf8(s) == BadByte \notin Range(s)

\* String::from_vec: the empty string for bytes that are not UTF-8.
from_vec(value) == IF IsUtf8(value) THEN value ELSE <<>>

\* str::parse::<usize>().is_ok(): digits after an optional plus sign.
IsUsize(v) == LET d == IF Len(v) > 0 /\ v[1] = "+" THEN Tail(v) ELSE v
              IN  /\ Len(d) > 0
                  /\ \A i \in 1..Len(d) : d[i] \in Range(AsciiDigits)

DigitValue(c) == (CHOOSE i \in 1..10 : AsciiDigits[i] = c) - 1

RECURSIVE DigitsValue(_)
DigitsValue(d) == IF d = <<>> THEN 0 ELSE 10 * DigitsValue(SubSeq(d, 1, Len(d) - 1)) + DigitValue(d[Len(d)])

\* str::parse::<usize>().unwrap() of a value IsUsize accepts.
ParseUsize(v) == DigitsValue(IF v[1] = "+" THEN Tail(v) ELSE v)

\* str::contains
Contains(s, sub) == \E i \in 0..(Len(s) - Len(sub)) : SubSeq(s, i + 1, i + Len(sub)) = sub

\* The first index of byte b in s, 0 when s has none.
FirstIndex(s, b) == IF b \in Range(s) THEN CHOOSE i \in 1..Len(s) : s[i] = b /\ \A j \in 1..(i - 1) : s[j] # b ELSE 0

Drop(s, n) == SubSeq(s, n + 1, Len(s))

\* let value = ..; In(value)
Let(value, In(_)) == In(value)

\* ------------------------------------------------------------------------
\* Literals of the source
\* ------------------------------------------------------------------------

B_ContentLength == <<"C", "o", "n", "t", "e", "n", "t", "-", "L", "e", "n", "g", "t", "h">>

B_TransferEncoding == <<"T", "r", "a", "n", "s", "f", "e", "r", "-", "E", "n", "c", "o", "d", "i", "n", "g">>

B_chunked == <<"c", "h", "u", "n", "k", "e", "d">>

B_Connection == <<"C", "o", "n", "n", "e", "c", "t", "i", "o", "n">>

B_close == <<"c", "l", "o", "s", "e">>

B_Accept == <<"A", "c", "c", "e", "p", "t">>

B_Http1_1 == <<"H", "T", "T", "P", "/", "1", ".", "1">>

B_Http1_0 == <<"H", "T", "T", "P", "/", "1", ".", "0">>

B_Http0_9 == <<"H", "T", "T", "P", "/", "0", ".", "9">>

B_Http2 == <<"H", "T", "T", "P", "/", "2">>

\* ------------------------------------------------------------------------
\* Headers (src/src/header.rs): a vector of (name, value) pairs
\* ------------------------------------------------------------------------

HEADERS_WITH_NUMBER_VALUES == {B_ContentLength}

is_header_valid(header_name, header_value) ==
    IF ~is_valid_token(header_name) THEN FALSE
    ELSE IF header_name \in HEADERS_WITH_NUMBER_VALUES THEN IsUsize(header_value)
    ELSE TRUE

\* Option::None of a header value: no byte sequence is equal to it.
NoValue == <<"<None>">>

\* Headers::has_inner: the index of the first entry that matches, 0 for None.
has_inner(inner, header_name, header_value) ==
    LET hit(i) == /\ eq_ignore_ascii_case(header_name, inner[i][1])
                  /\ (header_value = NoValue \/ eq_ignore_ascii_case(header_value, inner[i][2]))
    IN  IF \E i \in 1..Len(inner) : hit(i)
        THEN CHOOSE i \in 1..Len(inner) : hit(i) /\ \A j \in 1..(i - 1) : ~hit(j)
        ELSE 0

HeadersAdd(inner, header_name, header_value) ==
    Let(has_inner(inner, header_name, header_value), LAMBDA index :
        IF index # 0 THEN [inner EXCEPT ![index] = <<inner[index][1], header_value>>]
        ELSE Append(inner, <<header_name, header_value>>))

HeadersHas(inner, header_name, header_value) == has_inner(inner, header_name, header_value) # 0

\* Headers::get: NoValue for None.
HeadersGet(inner, header_name) ==
    Let(has_inner(inner, header_name, NoValue), LAMBDA index :
        IF index = 0 THEN NoValue ELSE inner[index][2])

\* ------------------------------------------------------------------------
\* Request parser (src/src/request.rs)
\* ------------------------------------------------------------------------

\* IteratorUtils::take_while_copy(|byte| byte != stop): the bytes before the
\* first stop byte; the iterator is left after that byte (take_while consumes
\* the element that fails the predicate).
take_while_copy(s, stop) ==
    Let(FirstIndex(s, stop), LAMBDA i :
        IF i = 0 THEN [taken |-> s, rest |-> <<>>]
        ELSE [taken |-> SubSeq(s, 1, i - 1), rest |-> Drop(s, i)])

take_until_crlf(s) ==
    Let(FirstIndex(s, LF), LAMBDA i :
        IF i = 0 THEN [ok |-> FALSE, values |-> <<>>, rest |-> <<>>]
        ELSE IF i > 1 /\ s[i - 1] = CR
             THEN [ok |-> TRUE, values |-> SubSeq(s, 1, i - 2), rest |-> Drop(s, i)]
             ELSE [ok |-> FALSE, values |-> <<>>, rest |-> <<>>])

\* RequestMethod::from_str
MethodFromStr(value) ==
    CASE value = <<"G", "E", "T">> -> "Get"
      [] value = <<"H", "E", "A", "D">> -> "Head"
      [] value = <<"O", "P", "T", "I", "O", "N", "S">> -> "Options"
      [] value = <<"P", "O", "S", "T">> -> "Post"
      [] value = <<"P", "U", "T">> -> "Put"
      [] value = <<"P", "A", "T", "C", "H">> -> "Patch"
      [] value = <<"D", "E", "L", "E", "T", "E">> -> "Delete"
      [] OTHER -> "Err"

\* HttpVersion::from_str
VersionFromStr(value) ==
    CASE value = B_Http0_9 -> "Http0_9"
      [] value = B_Http1_0 -> "Http1_0"
      [] value = B_Http1_1 -> "Http1_1"
      [] value = B_Http2 -> "Http2"
      [] OTHER -> "Err"

\* is_safe that takes POST for a safe method.
is_safe_or_post(method) == method \in {"Get", "Head", "Options", "Post"}

is_safe(method) == method \in {"Get", "Head", "Options"}

ParseErr == [kind |-> "Err"]

ParsePanic == [kind |-> "Panic"]

\* kind "Panic": an unwrap() of a from_utf8 error aborts the worker.
parse_request_line(s) ==
    Let(take_while_copy(s, SP), LAMBDA m :
    Let(take_while_copy(m.rest, SP), LAMBDA u :
    Let(take_until_crlf(u.rest), LAMBDA v :
    Let(MethodFromStr(m.taken), LAMBDA method :
        IF ~IsUtf8(m.taken) THEN ParsePanic
        ELSE IF ~v.ok THEN ParseErr
        ELSE IF ~IsUtf8(v.values) THEN ParsePanic
        ELSE IF method # "Err" /\ from_vec(u.taken) # <<>> /\ VersionFromStr(v.values) = "Http1_1"
             THEN [kind |-> "Ok", method |-> method, url |-> from_vec(u.taken), rest |-> v.rest]
             ELSE ParseErr))))

\* utils::skip_whitespace: the optional whitespace after the colon.
RECURSIVE skip_whitespace(_)
skip_whitespace(s) == IF s # <<>> /\ s[1] \in {SP, HT} THEN skip_whitespace(Tail(s)) ELSE s

RECURSIVE ParseHeadersLoop(_, _)
ParseHeadersLoop(s, headers) ==
    IF s # <<>> /\ s[1] = CR
    THEN IF Len(s) >= 2 /\ s[2] = LF THEN [kind |-> "Ok", headers |-> headers, rest |-> Drop(s, 2)]
         ELSE ParseErr
    ELSE Let(take_while_copy(s, COLON), LAMBDA h :
         Let(take_until_crlf(skip_whitespace(h.rest)), LAMBDA v :
         Let(from_vec(h.taken), LAMBDA header_name :
         Let(from_vec(v.values), LAMBDA header_value :
             IF ~v.ok THEN ParseErr
             ELSE IF ~is_header_valid(header_name, header_value) THEN ParseErr
             ELSE ParseHeadersLoop(v.rest, HeadersAdd(headers, header_name, header_value))))))

parse_headers(s) == ParseHeadersLoop(s, <<>>)

\* Request::content_length: kind "Panic" when parse::<usize>().unwrap() fails.
content_length(request) ==
    Let(HeadersGet(request.headers, B_ContentLength), LAMBDA v :
        IF v = NoValue THEN [kind |-> "None", length |-> 0]
        ELSE IF IsUsize(v) THEN [kind |-> "Some", length |-> ParseUsize(v)]
        ELSE [kind |-> "Panic", length |-> 0])

body_type(request) ==
    Let(content_length(request), LAMBDA cl :
        IF cl.kind = "Panic" THEN "Panic"
        ELSE IF cl.kind = "Some" THEN "ContentLength"
        ELSE IF HeadersHas(request.headers, B_TransferEncoding, B_chunked) THEN "TransferEncodingChunked"
        ELSE "None")

RECURSIVE ParseChunkedLoop(_, _)
ParseChunkedLoop(s, parsed) ==
    IF s = <<>> THEN [kind |-> "Ok", body |-> parsed, complete |-> FALSE]
    ELSE Let(take_until_crlf(s), LAMBDA c :
         Let(take_until_crlf(c.rest), LAMBDA d :
             IF ~c.ok \/ ~IsUtf8(c.values) \/ ~IsUsize(c.values) THEN ParseErr
             ELSE IF c.rest = <<>> THEN ParseErr
             ELSE IF ~d.ok THEN ParseErr
             ELSE IF Len(d.values) # ParseUsize(c.values) THEN ParseErr
             ELSE IF ParseUsize(c.values) = 0 THEN [kind |-> "Ok", body |-> parsed, complete |-> TRUE]
             ELSE ParseChunkedLoop(d.rest, parsed \o d.values)))

parse_chunked_body(body) == ParseChunkedLoop(body, <<>>)

parse_request(bytes) ==
    Let(parse_request_line(bytes), LAMBDA line :
    IF line.kind # "Ok" THEN line
    ELSE Let(parse_headers(line.rest), LAMBDA hdrs :
    IF hdrs.kind # "Ok" THEN hdrs
    ELSE Let([method |-> line.method, url |-> line.url, headers |-> hdrs.headers, body |-> <<>>], LAMBDA request :
         Let(body_type(request), LAMBDA type :
         IF type = "Panic" THEN ParsePanic
         ELSE IF type = "ContentLength"
              THEN [kind |-> "Ok", request |-> [request EXCEPT !.body = hdrs.rest],
                    is_complete |-> (Len(hdrs.rest) = content_length(request).length)]
         ELSE IF type = "TransferEncodingChunked"
              THEN Let(parse_chunked_body(hdrs.rest), LAMBDA chunked :
                       IF chunked.kind # "Ok" THEN ParseErr
                       ELSE [kind |-> "Ok", request |-> [request EXCEPT !.body = chunked.body],
                             is_complete |-> chunked.complete])
         ELSE [kind |-> "Ok", request |-> request, is_complete |-> TRUE]))))

\* ------------------------------------------------------------------------
\* Responses (src/src/response.rs)
\* ------------------------------------------------------------------------

EmptyHeaders == [k \in {} |-> ""]

\* HashMap::insert
MapInsert(headers, name, value) == [k \in DOMAIN headers \cup {name} |-> IF k = name THEN value ELSE headers[k]]

\* ResponseBuilder::new
NewResponse == [status_code |-> 200, headers |-> EmptyHeaders, body |-> <<>>]

\* set_status_code that drops the headers.
set_status_code_clearing(response, status_code) ==
    [response EXCEPT !.status_code = status_code, !.headers = EmptyHeaders]

set_status_code(response, status_code) == [response EXCEPT !.status_code = status_code]

set_header(response, header_name, header_value) == [response EXCEPT !.headers = MapInsert(@, header_name, header_value)]

set_body(response, body) == [response EXCEPT !.body = body]

\* ResponseBuilder::get
BuilderGet(response) ==
    IF response.body # <<>> /\ "Content-Length" \notin DOMAIN response.headers
    THEN set_header(response, "Content-Length", ToString(Len(response.body)))
    ELSE response

\* ------------------------------------------------------------------------
\* Content dispatcher (src/src/server.rs)
\* ------------------------------------------------------------------------

\* The file system the server runs on, by canonical path (a sequence of
\* names): the web root /w/r with a file f, a directory d and a symbolic link
\* post to the file /w/s, which is outside the root.
FileSystem ==
    (<<>> :> [kind |-> "dir"]) @@
    (<< <<"w">> >> :> [kind |-> "dir"]) @@
    (<< <<"w">>, <<"s">> >> :> [kind |-> "file", bytes |-> <<"k", "e", "y">>]) @@
    (<< <<"w">>, <<"r">> >> :> [kind |-> "dir"]) @@
    (<< <<"w">>, <<"r">>, <<"f">> >> :> [kind |-> "file", bytes |-> <<"h", "i", "!">>]) @@
    (<< <<"w">>, <<"r">>, <<"d">> >> :> [kind |-> "dir"]) @@
    (<< <<"w">>, <<"r">>, <<"p", "o", "s", "t">> >> :> [kind |-> "link", target |-> << <<"w">>, <<"s">> >>])

\* config.root, as fs::canonicalize resolves it.
RootPath == << <<"w">>, <<"r">> >>

RECURSIVE trim_start_slashes(_)
trim_start_slashes(url) == IF url # <<>> /\ url[1] = "/" THEN trim_start_slashes(Tail(url)) ELSE url

\* Path::components of a relative path: the names between the slashes.
RECURSIVE Components(_)
Components(path) ==
    IF path = <<>> THEN <<>>
    ELSE Let(FirstIndex(path, "/"), LAMBDA i :
             IF i = 0 THEN <<path>>
             ELSE IF i = 1 THEN Components(Tail(path))
             ELSE <<SubSeq(path, 1, i - 1)>> \o Components(Drop(path, i)))

\* fs::canonicalize of the names joined to the directory at: symbolic links are
\* resolved, .. is the parent, and a name that does not exist is an error.
RECURSIVE canonicalize(_, _)
canonicalize(at, names) ==
    IF names = <<>> THEN [ok |-> TRUE, path |-> at]
    ELSE IF FileSystem[at].kind # "dir" THEN [ok |-> FALSE, path |-> <<>>]
    ELSE IF names[1] = <<".">> THEN canonicalize(at, Tail(names))
    ELSE IF names[1] = <<".", ".">>
         THEN canonicalize(IF at = <<>> THEN at ELSE SubSeq(at, 1, Len(at) - 1), Tail(names))
    ELSE IF Append(at, names[1]) \notin DOMAIN FileSystem THEN [ok |-> FALSE, path |-> <<>>]
    ELSE IF FileSystem[Append(at, names[1])].kind = "link"
         THEN canonicalize(FileSystem[Append(at, names[1])].target, Tail(names))
         ELSE canonicalize(Append(at, names[1]), Tail(names))

\* Path::starts_with
starts_with(path, base) == Len(path) >= Len(base) /\ SubSeq(path, 1, Len(base)) = base

\* get_content without the check that the canonical path is under the root.
get_content_unconfined(content_path) ==
    Let(canonicalize(RootPath, Components(trim_start_slashes(content_path))), LAMBDA canonical :
        IF ~canonical.ok THEN [ok |-> FALSE, error |-> "NotFound", bytes |-> <<>>]
        ELSE IF FileSystem[canonical.path].kind # "file"
             THEN [ok |-> FALSE, error |-> "IsADirectory", bytes |-> <<>>]
        ELSE [ok |-> TRUE, error |-> "none", bytes |-> FileSystem[canonical.path].bytes])

\* get_content: the bytes of the file the url names under the root.
get_content(content_path) ==
    Let(canonicalize(RootPath, Components(trim_start_slashes(content_path))), LAMBDA canonical :
        IF ~canonical.ok THEN [ok |-> FALSE, error |-> "NotFound", bytes |-> <<>>]
        ELSE IF ~starts_with(canonical.path, RootPath)
             THEN [ok |-> FALSE, error |-> "PermissionDenied", bytes |-> <<>>]
        ELSE IF FileSystem[canonical.path].kind # "file"
             THEN [ok |-> FALSE, error |-> "IsADirectory", bytes |-> <<>>]
        ELSE [ok |-> TRUE, error |-> "none", bytes |-> FileSystem[canonical.path].bytes])

EndsWith(s, suffix) == Len(s) >= Len(suffix) /\ SubSeq(s, Len(s) - Len(suffix) + 1, Len(s)) = suffix

\* mime_guess::from_path and the charset content_response adds to text types.
ContentTypeOf(url) ==
    IF EndsWith(url, <<".", "t", "x", "t">>) THEN "text/plain; charset=utf-8"
    ELSE IF EndsWith(url, <<".", "h", "t", "m", "l">>) THEN "text/html; charset=utf-8"
    ELSE "application/octet-stream"

KeepAliveOff == [on |-> FALSE, max_requests |-> 0, timeout |-> 0, include_header |-> FALSE]

\* content_response that adds Keep-Alive whenever the policy is On.
content_response_announcing(request, content_bytes, keep_alive_config) ==
    LET b1 == set_header(set_header(NewResponse, "Content-Type", ContentTypeOf(request.url)),
                         "Content-Length", ToString(Len(content_bytes)))
        b2 == IF keep_alive_config.on
              THEN set_header(b1, "Keep-Alive",
                              "timeout=" \o ToString(keep_alive_config.timeout)
                                  \o ", max=" \o ToString(keep_alive_config.max_requests))
              ELSE b1
        b3 == IF request.method = "Get" THEN set_body(b2, content_bytes) ELSE b2
    IN  BuilderGet(b3)

content_response(request, content_bytes, keep_alive_config) ==
    LET b1 == set_header(set_header(NewResponse, "Content-Type", ContentTypeOf(request.url)),
                         "Content-Length", ToString(Len(content_bytes)))
        b2 == IF keep_alive_config.on /\ keep_alive_config.include_header
              THEN set_header(b1, "Keep-Alive",
                              "timeout=" \o ToString(keep_alive_config.timeout)
                                  \o ", max=" \o ToString(keep_alive_config.max_requests))
              ELSE b1
        b3 == IF request.method = "Get" THEN set_body(b2, content_bytes) ELSE b2
    IN  BuilderGet(b3)

\* Option::None of a request.
NoRequest == [method |-> "<None>"]

\* Display of ResponseStatusCode
ReasonPhrase(status_code) ==
    CASE status_code = 200 -> <<"O", "K">>
      [] status_code = 400 -> <<"B", "a", "d", " ", "R", "e", "q", "u", "e", "s", "t">>
      [] status_code = 404 -> <<"N", "o", "t", " ", "F", "o", "u", "n", "d">>
      [] status_code = 405 -> <<"M", "e", "t", "h", "o", "d", " ", "N", "o", "t", " ", "A", "l", "l", "o", "w", "e", "d">>
      [] status_code = 408 -> <<"R", "e", "q", "u", "e", "s", "t", " ", "T", "i", "m", "e", "o", "u", "t">>

RECURSIVE DecimalDigits(_)
DecimalDigits(n) == IF n < 10 THEN <<AsciiDigits[n + 1]>> ELSE Append(DecimalDigits(n \div 10), AsciiDigits[(n % 10) + 1])

ErrorHtmlBody(status_code) ==
    <<"<", "h", "t", "m", "l", ">", "<", "b", "o", "d", "y", ">", "<", "h", "1", " ", "s", "t", "y", "l", "e", "=", "'", "t", "e", "x", "t", "-", "a", "l", "i", "g", "n", ":", " ", "c", "e", "n", "t", "e", "r", "'", ">">>
        \o DecimalDigits(status_code) \o <<SP>> \o ReasonPhrase(status_code)
        \o <<"<", "/", "h", "1", ">", "<", "/", "b", "o", "d", "y", ">", "<", "/", "h", "t", "m", "l", ">">>

error_response(request, status_code) ==
    Let(IF request = NoRequest THEN NoValue ELSE HeadersGet(request.headers, B_Accept), LAMBDA accept_header :
        IF /\ accept_header # NoValue
           /\ \/ Contains(accept_header, <<"t", "e", "x", "t", "/", "h", "t", "m", "l">>)
              \/ Contains(accept_header, <<"t", "e", "x", "t", "/", "*">>)
              \/ Contains(accept_header, <<"*", "/", "*">>)
        THEN BuilderGet(set_body(set_header(set_status_code(NewResponse, status_code),
                                            "Content-Type", "text/html; charset=utf-8"),
                                 ErrorHtmlBody(status_code)))
        ELSE BuilderGet(set_status_code(NewResponse, status_code)))

safe_methods_str == "GET, HEAD, OPTIONS"

\* options_response that never lists the methods.
options_response_without_allow(request) == BuilderGet(set_status_code(NewResponse, 204))

options_response(request) ==
    LET b1 == set_status_code(NewResponse, 204)
    IN  IF request.url # <<"*">> THEN BuilderGet(set_header(b1, "Allow", safe_methods_str))
        ELSE BuilderGet(b1)

\* Option::None of a response: the listener declines.
NoResponse == [status_code |-> 0]

\* The request listener the integration tests register.
TestListener(request) ==
    IF request.url # <<"/">> THEN NoResponse
    ELSE IF request.method = "Get" THEN BuilderGet(set_body(NewResponse, <<"O", "k">>))
    ELSE BuilderGet(set_body(NewResponse, request.body))

\* The request listener of examples/example_http.rs.
ExampleListener(request) ==
    IF request.url = <<"/", "p", "o", "s", "t">>
    THEN BuilderGet(set_body(set_header(set_header(NewResponse,
             "Content-Type", IF HeadersHas(request.headers, <<"C", "o", "n", "t", "e", "n", "t", "-", "T", "y", "p", "e">>, NoValue)
                             THEN HeadersGet(request.headers, <<"C", "o", "n", "t", "e", "n", "t", "-", "T", "y", "p", "e">>)
                             ELSE "text/html"),
             "Content-Length", ToString(Len(request.body))), request.body))
    ELSE IF request.url # <<"/", "l", "o", "n", "g", ".", "h", "t", "m", "l">> THEN NoResponse
    ELSE BuilderGet(set_body(set_header(NewResponse, "Content-Type", "text/html"),
                             <<"L", "o", "n", "g", " ", "r", "e", "q", "u", "e", "s", "t">>))

\* The listeners a server is built with: none, or one of the two above.
Listeners == {"none", "test", "example"}

\* Server::serve_content of a server with the given listener and keep-alive
\* policy: the response, and whether the listener was invoked for it.
serve_content_run(server, request) ==
    Let(get_content(request.url), LAMBDA content :
        IF content.ok
        THEN [listened |-> FALSE,
              response |-> IF ~is_safe(request.method)
                           THEN set_header(error_response(request, 405), "Allow", safe_methods_str)
                           ELSE IF request.method = "Options" THEN options_response(request)
                           ELSE content_response(request, content.bytes, server.keep_alive)]
        ELSE IF server.listener = "none"
             THEN [listened |-> FALSE, response |-> error_response(request, 404)]
        ELSE Let(IF server.listener = "test" THEN TestListener(request) ELSE ExampleListener(request),
                 LAMBDA heard :
                 [listened |-> TRUE,
                  response |-> IF heard # NoResponse THEN heard ELSE error_response(request, 404)]))

serve_content(server, request) == serve_content_run(server, request).response

\* Server::prepare_response: the response, and whether the listener was invoked.
prepare_response_run(server, request) ==
    IF request.method = "Options" /\ request.url = <<"*">>
    THEN [listened |-> FALSE, response |-> options_response(request)]
    ELSE serve_content_run(server, request)

prepare_response(server, request) == prepare_response_run(server, request).response

\* ------------------------------------------------------------------------
\* Rules (src/src/rules/rule.rs, expr.rs, value.rs, object.rs; applied by
\* apply_rules of src/src/server.rs)
\* ------------------------------------------------------------------------

\* A rule that matches every url.
RuleMatchesAny(rule, url) == TRUE

\* Rule::matches: the pattern occurs in the url.
RuleMatches(rule, url) == Contains(url, rule.pattern)

\* The values of the rule language.
TypeString(s) == [t |-> "String", s |-> s, n |-> 0, b |-> FALSE, obj |-> "", items |-> <<>>]

TypeInt(n) == [t |-> "Int", s |-> "", n |-> n, b |-> FALSE, obj |-> "", items |-> <<>>]

TypeBool(b) == [t |-> "Bool", s |-> "", n |-> 0, b |-> b, obj |-> "", items |-> <<>>]

TypeIdent(s) == [t |-> "Ident", s |-> s, n |-> 0, b |-> FALSE, obj |-> "", items |-> <<>>]

TypeObject(obj) == [t |-> "Object", s |-> "", n |-> 0, b |-> FALSE, obj |-> obj, items |-> <<>>]

TypeFunction(s) == [t |-> "Function", s |-> s, n |-> 0, b |-> FALSE, obj |-> "", items |-> <<>>]

TypeMethod(obj, s) == [t |-> "Method", s |-> s, n |-> 0, b |-> FALSE, obj |-> obj, items |-> <<>>]

TypeList(items) == [t |-> "List", s |-> "", n |-> 0, b |-> FALSE, obj |-> "", items |-> items]

NoVar == [t |-> "None", s |-> "", n |-> 0, b |-> FALSE, obj |-> "", items |-> <<>>]

\* The three ends of an evaluation: a value, a runtime error, a panic.
EvalOk(value, response) == [status |-> "Ok", value |-> value, error |-> "none", response |-> response]

EvalErr(error, response) == [status |-> "Err", value |-> NoVar, error |-> error, response |-> response]

EvalPanic(response) == [status |-> "Panic", value |-> NoVar, error |-> "none", response |-> response]

\* RuleScope::get_var in the scope Rule::evaluate builds.
get_var(ident) ==
    CASE ident = "request" -> TypeObject("request")
      [] ident = "log" -> TypeFunction("log")
      [] ident = "response" -> TypeObject("response")
      [] OTHER -> NoVar

\* Object::get_member of the objects of Request and Response: the kind of
\* the member.
get_member(obj, ident) ==
    IF obj = "request" /\ ident = "method" THEN "Field"
    ELSE IF obj = "response" /\ ident = "set_header" THEN "Method"
    ELSE "None"

\* FromVec::from_vec: the arguments convert when there are enough of them and
\* each has the type of its parameter; otherwise an unwrap panics.
args_from_vec(values, types) ==
    /\ Len(values) >= Len(types)
    /\ \A i \in 1..Len(types) : values[i].t = types[i]

\* The callables of the scope, invoked with an argument vector.
callable(name, args, response) ==
    IF name = "log"
    THEN IF args_from_vec(args, <<"String">>) THEN EvalOk(TypeBool(TRUE), response) ELSE EvalPanic(response)
    ELSE IF args_from_vec(args, <<"Object", "String", "String">>)
         THEN EvalOk(TypeBool(TRUE), set_header(response, args[2].s, args[3].s))
         ELSE EvalPanic(response)

\* eval_value
eval_value(token) ==
    CASE token.kind = "LitStr" -> TypeString(token.s)
      [] token.kind = "LitInt" -> TypeInt(token.n)
      [] token.kind = "Ident" -> TypeIdent(token.s)

\* PartialEq for Value that takes any two strings and any two integers for
\* equal.
value_eq_of_kind(lhs_value, rhs_value) ==
    IF lhs_value.t = "String" /\ rhs_value.t = "String" THEN "true"
    ELSE IF lhs_value.t = "Int" /\ rhs_value.t = "Int" THEN "true"
    ELSE "todo"

\* PartialEq for Value: "todo" is the todo!() of the other combinations.
value_eq(lhs_value, rhs_value) ==
    IF lhs_value.t = "String" /\ rhs_value.t = "String" THEN IF lhs_value.s = rhs_value.s THEN "true" ELSE "false"
    ELSE IF lhs_value.t = "Int" /\ rhs_value.t = "Int" THEN IF lhs_value.n = rhs_value.n THEN "true" ELSE "false"
    ELSE "todo"

\* eval_bool_expr
eval_bool_expr(lhs_value, operator, rhs_value, response) ==
    IF lhs_value.t # "Bool" \/ rhs_value.t # "Bool" THEN EvalErr("IncorrectType", response)
    ELSE IF operator = "And" THEN EvalOk(TypeBool(lhs_value.b /\ rhs_value.b), response)
    ELSE EvalOk(TypeBool(lhs_value.b \/ rhs_value.b), response)

\* eval_path_expr
eval_path_expr(target_val, member_val, request, response) ==
    IF target_val.t # "Ident" \/ member_val.t # "Ident" THEN EvalPanic(response)
    ELSE Let(get_var(target_val.s), LAMBDA var :
             IF var.t = "None" THEN EvalErr("UnresolvedReference", response)
             ELSE IF var.t # "Object" THEN EvalErr("IncorrectType", response)
             ELSE IF get_member(var.obj, member_val.s) = "None" THEN EvalErr("MemberNotDefined", response)
             ELSE IF get_member(var.obj, member_val.s) = "Field" THEN EvalOk(TypeString(request.method), response)
             ELSE EvalOk(TypeMethod(var.obj, member_val.s), response))

\* eval_call_expr
eval_call_expr(target_val, args_val, response) ==
    IF args_val.t # "List" THEN EvalPanic(response)
    ELSE Let(IF target_val.t = "Ident" THEN get_var(target_val.s) ELSE target_val, LAMBDA func :
             IF func.t = "None" THEN EvalErr("UnresolvedReference", response)
             ELSE IF func.t = "Function"
                  THEN callable(func.s, args_val.items, response)
             ELSE IF func.t = "Method"
                  THEN callable(func.s, <<TypeObject(func.obj)>> \o args_val.items, response)
             ELSE EvalErr("IncorrectType", response))

\* ExprOrValue::eval and eval_expr: both sides are evaluated, the left one
\* first, before the operator is looked at.
RECURSIVE eval(_, _, _)
RECURSIVE eval_many(_, _, _, _)
eval(expression, request, response) ==
    IF expression.e = "Value" THEN EvalOk(eval_value(expression), response)
    ELSE IF expression.e = "Many" THEN eval_many(expression.args, <<>>, request, response)
    ELSE Let(eval(expression.lhs, request, response), LAMBDA lhs :
         IF lhs.status # "Ok" THEN lhs
         ELSE Let(eval(expression.rhs, request, lhs.response), LAMBDA rhs :
              IF rhs.status # "Ok" THEN rhs
              ELSE IF expression.operator \in {"And", "Or"}
                   THEN eval_bool_expr(lhs.value, expression.operator, rhs.value, rhs.response)
              ELSE IF expression.operator \in {"Eq", "NotEq"}
                   THEN Let(value_eq(lhs.value, rhs.value), LAMBDA equal :
                            IF equal = "todo" THEN EvalPanic(rhs.response)
                            ELSE EvalOk(TypeBool((equal = "true") = (expression.operator = "Eq")), rhs.response))
              ELSE IF expression.operator = "Dot"
                   THEN eval_path_expr(lhs.value, rhs.value, request, rhs.response)
              ELSE eval_call_expr(lhs.value, rhs.value, rhs.response)))

\* The Many arm of ExprOrValue::eval: the arguments from left to right.
eval_many(args, val_args, request, response) ==
    IF args = <<>> THEN EvalOk(TypeList(val_args), response)
    ELSE Let(eval(Head(args), request, response), LAMBDA arg :
             IF arg.status # "Ok" THEN arg
             ELSE eval_many(Tail(args), Append(val_args, arg.value), request, arg.response))

\* What one statement, or a block of them, leaves behind: the result, the
\* response, the statements that were run (each named by its place in the
\* rules: the number of its rule, then its number in each enclosing block),
\* the response before the last of them, and the statements whose expression
\* raised a runtime error.
Evaluated(result, response, trace, prior, raised) ==
    [result |-> result, response |-> response, trace |-> trace, prior |-> prior, raised |-> raised]

\* Rule::evaluate_statements from the i-th statement of a block on.  result
\* "Panic": the panic!() of a set_header call whose arguments are not two
\* strings, the unreachable!() of an if whose condition did not evaluate to
\* a boolean, and a panic inside an expression.  The value of an expression
\* statement is dropped, and a runtime error with it.
RECURSIVE evaluate_statements(_, _, _, _, _)
evaluate_statements(statements, request, response, block, i) ==
    IF i > Len(statements) THEN Evaluated("Continue", response, <<>>, response, <<>>)
    ELSE Let(statements[i], LAMBDA statement :
         Let(IF statement.kind = "Func"
             THEN IF statement.name = "set_header"
                  THEN IF Len(statement.args) = 2 /\ \A k \in 1..2 : statement.args[k].lit = "String"
                       THEN Evaluated("Continue", set_header(response, statement.args[1].val, statement.args[2].val),
                                      <<>>, response, <<>>)
                       ELSE Evaluated("Panic", response, <<>>, response, <<>>)
                  ELSE Evaluated("Continue", response, <<>>, response, <<>>)
             ELSE IF statement.kind = "Redirect"
             THEN Evaluated("Finish",
                            set_header(set_status_code(response, statement.code), "Location", statement.location),
                            <<>>, response, <<>>)
             ELSE IF statement.kind = "Return"
             THEN Evaluated("Finish",
                            IF statement.body # NoValue
                            THEN set_header(set_body(set_status_code(response, statement.code), statement.body),
                                            "Content-Length", ToString(Len(statement.body)))
                            ELSE set_status_code(response, statement.code),
                            <<>>, response, <<>>)
             ELSE IF statement.kind = "If"
             THEN Let(eval(statement.condition_expr, request, response), LAMBDA condition :
                      IF condition.status = "Ok" /\ condition.value.t = "Bool"
                      THEN IF condition.value.b
                           THEN evaluate_statements(statement.statements, request, condition.response,
                                                    Append(block, i), 1)
                           ELSE Evaluated("Continue", condition.response, <<>>, response, <<>>)
                      ELSE Evaluated("Panic", condition.response, <<>>, response,
                                     IF condition.status = "Err" THEN <<Append(block, i)>> ELSE <<>>))
             ELSE Let(eval(statement.expr, request, response), LAMBDA value :
                      Evaluated(IF value.status = "Panic" THEN "Panic" ELSE "Continue", value.response, <<>>, response,
                                IF value.status = "Err" THEN <<Append(block, i)>> ELSE <<>>)),
             LAMBDA done :
             IF done.result # "Continue"
             THEN Evaluated(done.result, done.response, <<Append(block, i)>> \o done.trace,
                            IF done.trace = <<>> THEN response ELSE done.prior, done.raised)
             ELSE Let(evaluate_statements(statements, request, done.response, block, i + 1), LAMBDA rest :
                      Evaluated(rest.result, rest.response, <<Append(block, i)>> \o done.trace \o rest.trace,
                                IF rest.trace # <<>> THEN rest.prior
                                ELSE IF done.trace # <<>> THEN done.prior ELSE response,
                                done.raised \o rest.raised))))

\* apply_rules from the k-th rule on.
RECURSIVE apply_rules_from(_, _, _, _)
apply_rules_from(rules, k, request, response) ==
    IF k > Len(rules) THEN [result |-> "Ok", response |-> response]
    ELSE IF ~RuleMatches(rules[k], request.url) THEN apply_rules_from(rules, k + 1, request, response)
    ELSE Let(evaluate_statements(rules[k].statements, request, response, <<k>>, 1), LAMBDA evaluated :
             IF evaluated.result = "Panic" THEN [result |-> "Panic", response |-> evaluated.response]
             ELSE IF evaluated.result = "Finish" THEN [result |-> "Ok", response |-> evaluated.response]
             ELSE apply_rules_from(rules, k + 1, request, evaluated.response))

apply_rules(rules, request, response) == apply_rules_from(rules, 1, request, response)

\* ------------------------------------------------------------------------
\* Integer widths
\* ------------------------------------------------------------------------

\* u8: max_requests and served_requests_count.
U8Modulus == 256

\* usize: the length of a read strategy.  The model's modulus stands for 2^64;
\* it exceeds every buffer length of the model, which is all the code compares
\* a length with.
UsizeModulus == 1048576

\* ------------------------------------------------------------------------
\* Byte transport (src/src/connection.rs)
\* ------------------------------------------------------------------------

\* The size of the buffer one stream.read fills.
StreamBufLen == 1024

DoubleCrlf == <<CR, LF, CR, LF>>

UntilDoubleCrlf == [kind |-> "UntilDoubleCrlf", length |-> 0]

UntilDoubleCrlfAtEnd == [kind |-> "UntilDoubleCrlfAtEnd", length |-> 0]

UntilNoBytesRead(length) == [kind |-> "UntilNoBytesRead", length |-> length]

\* The strategy of a chunked body: the buffer ends with CR LF CR LF.
UntilDoubleCrlfAtEndDone(read_bytes) == EndsWith(read_bytes, DoubleCrlf)

\* ReadStateMachine::check_if_finished: TRUE for ReadState::Done, FALSE for
\* another ReadState::Read.
check_if_finished(read_strategy, all_read_bytes, read_bytes) ==
    IF read_bytes = 0 THEN TRUE
    ELSE CASE read_strategy.kind = "UntilDoubleCrlf" -> Contains(all_read_bytes, DoubleCrlf)
           [] read_strategy.kind = "UntilNoBytesRead" -> Len(all_read_bytes) >= read_strategy.length
           [] read_strategy.kind = "UntilDoubleCrlfAtEnd" -> UntilDoubleCrlfAtEndDone(all_read_bytes)

\* ------------------------------------------------------------------------
\* Connection state machine (src/src/server.rs)
\* ------------------------------------------------------------------------

VARIABLES
    server,                 \* the configuration, listener and rules of the Server
    env,                    \* what the build and the platform decide
    state,                  \* HandleConnectionState
    persistent,             \* HandleConnectionStateMachine.persistent
    max_requests,           \* HandleConnectionStateMachine.max_requests
    served_requests_count,  \* HandleConnectionStateMachine.served_requests_count
    read_timeout,           \* the read timeout handle_connection sets on the stream
    reader,                 \* the ReadStateMachine of the Connection::read in progress
    stream_in,              \* bytes the peer has written and the server has not read
    peer,                   \* the client of the connection
    wire,                   \* observation: the responses written to the stream
    dispatched,             \* observation: the requests handed to the dispatcher, the last one, and
                            \* the number of responses written before it
    timeouts,               \* observation: the reads that timed out, and those of them in Read(None)
    unit                    \* the value a specification of one unit of the program works on

vars == <<server, env, state, persistent, max_requests, served_requests_count, read_timeout,
          reader, stream_in, peer, wire, dispatched, timeouts, unit>>

\* The variables of a connection.
connection_vars == <<server, env, state, persistent, max_requests, served_requests_count, read_timeout,
                     reader, stream_in, peer, wire, dispatched, timeouts>>

\* A connection works on no unit value.
NoUnit == [of |-> "none"]

StNew == [tag |-> "New", request |-> NoRequest, response |-> NoResponse, status_code |-> 0, error |-> "none"]

StRead(current_request) == [tag |-> "Read", request |-> current_request, response |-> NoResponse, status_code |-> 0, error |-> "none"]

StSendResponse(request, response) == [tag |-> "SendResponse", request |-> request, response |-> response, status_code |-> 0, error |-> "none"]

StClientError(request, status_code) == [tag |-> "ClientError", request |-> request, response |-> NoResponse, status_code |-> status_code, error |-> "none"]

StClose == [tag |-> "Close", request |-> NoRequest, response |-> NoResponse, status_code |-> 0, error |-> "none"]

StError(kind) == [tag |-> "Error", request |-> NoRequest, response |-> NoResponse, status_code |-> 0, error |-> kind]

\* The worker thread has panicked: handle_connection never returns.
StPanic == [tag |-> "Panic", request |-> NoRequest, response |-> NoResponse, status_code |-> 0, error |-> "none"]

Terminated == state.tag \in {"Close", "Error", "Panic"}

\* ReadStateMachine::new
ReaderBefore == [state |-> "Before", read_strategy |-> UntilDoubleCrlf, read_bytes |-> <<>>, loop_read_bytes |-> 0]

\* An arithmetic overflow panics in a build with overflow checks and wraps in
\* a build without; one build does the same every time.
OverflowModes == IF env.overflow = "unset" THEN {"checked", "wrapping"} ELSE {env.overflow}

\* A read that times out fails with TimedOut on some platforms and with
\* WouldBlock on others; one platform does the same every time.
TimeoutKinds == IF env.timeout_kind = "unset" THEN {"TimedOut", "WouldBlock"} ELSE {env.timeout_kind}

\* HandleConnectionStateMachine::read, the choice of the read strategy.  The
\* length of UntilNoBytesRead is returned unreduced: negative where the
\* subtraction overflows.
ReadStrategyOf(current_request) ==
    IF current_request = NoRequest THEN UntilDoubleCrlf
    ELSE Let(body_type(current_request), LAMBDA type :
             CASE type = "ContentLength" ->
                      UntilNoBytesRead(content_length(current_request).length - Len(current_request.body))
               [] type = "TransferEncodingChunked" -> UntilDoubleCrlfAtEnd
               [] OTHER -> [kind |-> "unreachable", length |-> 0])

\* HandleConnectionStateMachine::read on a parsed head: is more body to read?
has_body(request, is_request_complete) ==
    Let(body_type(request), LAMBDA type :
        CASE type = "ContentLength" ->
                 Let(content_length(request).length, LAMBDA length :
                     ~(Len(request.body) = length \/ length = 0))
          [] type = "TransferEncodingChunked" -> ~is_request_complete
          [] OTHER -> FALSE)

NotDispatched == [request |-> NoRequest, via |-> "none"]

\* ReadHead of a state machine that reads the next request before it answers
\* the one it has parsed.
ReadHeadBeforeAnswer(request_bytes) ==
    Let(parse_request(request_bytes), LAMBDA parsed :
        IF parsed.kind = "Panic" THEN [next |-> StPanic, dispatch |-> NotDispatched]
        ELSE IF parsed.kind = "Err" THEN [next |-> StClientError(NoRequest, 400), dispatch |-> NotDispatched]
        ELSE [next |-> StRead(NoRequest),
              dispatch |-> [request |-> parsed.request, via |-> "prepare_response"]])

\* HandleConnectionStateMachine::read after Connection::read returned Ok(bytes)
\* in Read(None).
ReadHead(request_bytes) ==
    Let(parse_request(request_bytes), LAMBDA parsed :
        IF parsed.kind = "Panic" THEN [next |-> StPanic, dispatch |-> NotDispatched]
        ELSE IF parsed.kind = "Err" THEN [next |-> StClientError(NoRequest, 400), dispatch |-> NotDispatched]
        ELSE IF ~has_body(parsed.request, parsed.is_complete)
             THEN [next |-> StSendResponse(parsed.request, prepare_response(server, parsed.request)),
                   dispatch |-> [request |-> parsed.request, via |-> "prepare_response"]]
             ELSE [next |-> StRead(parsed.request), dispatch |-> NotDispatched])

\* ReadBody of a state machine that keeps the bytes of the last read only.
ReadBodyKeepingLast(request, request_bytes) ==
    Let(body_type(request), LAMBDA type :
    IF type = "ContentLength" /\ Len(request_bytes) > content_length(request).length
    THEN [next |-> StClientError(request, 400), dispatch |-> NotDispatched]
    ELSE Let(IF type = "TransferEncodingChunked" THEN parse_chunked_body(request_bytes)
             ELSE [kind |-> "Ok", body |-> request_bytes, complete |-> TRUE], LAMBDA chunked :
         IF chunked.kind # "Ok" THEN [next |-> StClientError(request, 400), dispatch |-> NotDispatched]
         ELSE IF ~chunked.complete THEN [next |-> StRead(request), dispatch |-> NotDispatched]
         ELSE Let([request EXCEPT !.body = chunked.body], LAMBDA full :
                  [next |-> StSendResponse(full, serve_content(server, full)),
                   dispatch |-> [request |-> full, via |-> "serve_content"]])))

\* ... and in Read(Some(request)).
ReadBody(request, request_bytes) ==
    Let(body_type(request), LAMBDA type :
    IF type = "ContentLength" /\ Len(request_bytes) > content_length(request).length
    THEN [next |-> StClientError(request, 400), dispatch |-> NotDispatched]
    ELSE Let(IF type = "TransferEncodingChunked" THEN parse_chunked_body(request_bytes)
             ELSE [kind |-> "Ok", body |-> request_bytes, complete |-> TRUE], LAMBDA chunked :
         IF chunked.kind # "Ok" THEN [next |-> StClientError(request, 400), dispatch |-> NotDispatched]
         ELSE IF ~chunked.complete THEN [next |-> StRead(request), dispatch |-> NotDispatched]
         ELSE Let([request EXCEPT !.body = @ \o chunked.body], LAMBDA full :
                  [next |-> StSendResponse(full, serve_content(server, full)),
                   dispatch |-> [request |-> full, via |-> "serve_content"]])))

\* ReadOk of a state machine that answers 400 when the peer has closed before
\* the first byte of a request.
ReadOkAnsweringEof(current_request, request_bytes) ==
    IF request_bytes = <<>>
    THEN [next |-> StClientError(current_request, 400), dispatch |-> NotDispatched]
    ELSE IF current_request = NoRequest THEN ReadHead(request_bytes)
    ELSE ReadBody(current_request, request_bytes)

\* HandleConnectionStateMachine::read, Connection::read returned Ok(request_bytes).
ReadOk(current_request, request_bytes) ==
    IF request_bytes = <<>> /\ current_request # NoRequest
    THEN [next |-> StClientError(current_request, 400), dispatch |-> NotDispatched]
    ELSE IF request_bytes = <<>> THEN [next |-> StClose, dispatch |-> NotDispatched]
    ELSE IF current_request = NoRequest THEN ReadHead(request_bytes)
    ELSE ReadBody(current_request, request_bytes)

\* HandleConnectionStateMachine::read, Connection::read returned Err(kind).
ReadErr(kind) ==
    IF kind \in {"ConnectionReset", "ConnectionAborted"} THEN [next |-> StClose, dispatch |-> NotDispatched]
    ELSE IF kind = "TimedOut" THEN [next |-> StClientError(NoRequest, 408), dispatch |-> NotDispatched]
    ELSE [next |-> StError(kind), dispatch |-> NotDispatched]

Dispatch(outcome) ==
    IF outcome.dispatch = NotDispatched THEN dispatched
    ELSE [count |-> dispatched.count + 1, last |-> outcome.dispatch.request, via |-> outcome.dispatch.via,
          at |-> wire.count]

\* ------------------------------------------------------------------------
\* The peer: the byte streams a client sends as one request
\* ------------------------------------------------------------------------

\* a GET the listener answers
GetRoot == <<"G", "E", "T", " ", "/", " ", "H", "T", "T", "P", "/", "1", ".", "1", "\r", "\n", "\r", "\n">>

\* a GET of a file of the web root
GetFile == <<"G", "E", "T", " ", "/", "f", " ", "H", "T", "T", "P", "/", "1", ".", "1", "\r", "\n", "\r", "\n">>

\* a GET that asks to close the connection, in the letter case of its own
GetClose == <<"G", "E", "T", " ", "/", " ", "H", "T", "T", "P", "/", "1", ".", "1", "\r", "\n", "c", "o", "n", "n", "e", "c", "t", "i", "o", "n", ":", "C", "l", "o", "s", "e", "\r", "\n", "\r", "\n">>

\* a GET of no file, by a client that accepts HTML
GetMissingHtml == <<"G", "E", "T", " ", "/", "x", " ", "H", "T", "T", "P", "/", "1", ".", "1", "\r", "\n", "A", "c", "c", "e", "p", "t", ":", " ", "*", "/", "*", "\r", "\n", "\r", "\n">>

\* a POST with a Content-Length body
PostLength == <<"P", "O", "S", "T", " ", "/", " ", "H", "T", "T", "P", "/", "1", ".", "1", "\r", "\n", "C", "o", "n", "t", "e", "n", "t", "-", "L", "e", "n", "g", "t", "h", ":", " ", "3", "\r", "\n", "\r", "\n", "a", "b", "c">>

\* a POST with a chunked body of two chunks
PostChunked == <<"P", "O", "S", "T", " ", "/", " ", "H", "T", "T", "P", "/", "1", ".", "1", "\r", "\n", "T", "r", "a", "n", "s", "f", "e", "r", "-", "E", "n", "c", "o", "d", "i", "n", "g", ":", "c", "h", "u", "n", "k", "e", "d", "\r", "\n", "\r", "\n", "1", "\r", "\n", "a", "\r", "\n", "2", "\r", "\n", "b", "c", "\r", "\n", "0", "\r", "\n", "\r", "\n">>

\* a Content-Length body the peer sends one byte short
PostLengthShort == <<"P", "O", "S", "T", " ", "/", " ", "H", "T", "T", "P", "/", "1", ".", "1", "\r", "\n", "C", "o", "n", "t", "e", "n", "t", "-", "L", "e", "n", "g", "t", "h", ":", "3", "\r", "\n", "\r", "\n", "a", "b">>

\* a Content-Length body followed by one more byte
PostLengthLong == <<"P", "O", "S", "T", " ", "/", " ", "H", "T", "T", "P", "/", "1", ".", "1", "\r", "\n", "C", "o", "n", "t", "e", "n", "t", "-", "L", "e", "n", "g", "t", "h", ":", "3", "\r", "\n", "\r", "\n", "a", "b", "c", "d">>

\* Content-Length: 0 followed by two bytes
PostLengthZero == <<"P", "O", "S", "T", " ", "/", " ", "H", "T", "T", "P", "/", "1", ".", "1", "\r", "\n", "C", "o", "n", "t", "e", "n", "t", "-", "L", "e", "n", "g", "t", "h", ":", "0", "\r", "\n", "\r", "\n", "x", "y">>

\* Transfer-Encoding: chunked together with a Content-Length of the length
\* of the chunk-framed body
PostBothFramings == <<"P", "O", "S", "T", " ", "/", " ", "H", "T", "T", "P", "/", "1", ".", "1", "\r", "\n", "T", "r", "a", "n", "s", "f", "e", "r", "-", "E", "n", "c", "o", "d", "i", "n", "g", ":", "c", "h", "u", "n", "k", "e", "d", "\r", "\n", "C", "o", "n", "t", "e", "n", "t", "-", "L", "e", "n", "g", "t", "h", ":", "1", "1", "\r", "\n", "\r", "\n", "1", "\r", "\n", "a", "\r", "\n", "0", "\r", "\n", "\r", "\n">>

\* an invalid method
BadMethod == <<"G", "O", "T", " ", "/", " ", "H", "T", "T", "P", "/", "1", ".", "1", "\r", "\n", "\r", "\n">>

\* a method that is not UTF-8
BadMethodByte == <<BadByte, " ", "/", " ", "H", "T", "T", "P", "/", "1", ".", "1", "\r", "\n", "\r", "\n">>

\* an invalid version
BadVersion == <<"G", "E", "T", " ", "/", " ", "H", "T", "T", "P", "/", "1", ".", "0", "\r", "\n", "\r", "\n">>

\* an empty target
BadTarget == <<"G", "E", "T", " ", " ", "H", "T", "T", "P", "/", "1", ".", "1", "\r", "\n", "\r", "\n">>

\* a header name that is no token
BadHeaderToken == <<"G", "E", "T", " ", "/", " ", "H", "T", "T", "P", "/", "1", ".", "1", "\r", "\n", "a", " ", "b", ":", " ", "c", "\r", "\n", "\r", "\n">>

\* a header name with a non-ASCII letter
BadHeaderLetter == <<"G", "E", "T", " ", "/", " ", "H", "T", "T", "P", "/", "1", ".", "1", "\r", "\n", "<U+00E9>", ":", " ", "c", "\r", "\n", "\r", "\n">>

\* a Content-Length that is no number
BadLength == <<"G", "E", "T", " ", "/", " ", "H", "T", "T", "P", "/", "1", ".", "1", "\r", "\n", "C", "o", "n", "t", "e", "n", "t", "-", "L", "e", "n", "g", "t", "h", ":", " ", "x", "\r", "\n", "\r", "\n">>

\* a lower-case content-length that is no number
BadLengthLower == <<"G", "E", "T", " ", "/", " ", "H", "T", "T", "P", "/", "1", ".", "1", "\r", "\n", "c", "o", "n", "t", "e", "n", "t", "-", "l", "e", "n", "g", "t", "h", ":", "x", "\r", "\n", "\r", "\n">>

\* a request line without CRLF
BadNoCrlf == <<"G", "E", "T", " ", "/", " ", "H", "T", "T", "P", "/", "1", ".", "1", "H", "o", "s", "t", ":", " ", "x", "\r", "\n", "\r", "\n">>

\* a chunk whose size line does not match its payload
BadChunkSize == <<"P", "O", "S", "T", " ", "/", " ", "H", "T", "T", "P", "/", "1", ".", "1", "\r", "\n", "T", "r", "a", "n", "s", "f", "e", "r", "-", "E", "n", "c", "o", "d", "i", "n", "g", ":", "c", "h", "u", "n", "k", "e", "d", "\r", "\n", "\r", "\n", "2", "\r", "\n", "a", "\r", "\n", "0", "\r", "\n", "\r", "\n">>

\* OPTIONS with the target *
OptionsStar == <<"O", "P", "T", "I", "O", "N", "S", " ", "*", " ", "H", "T", "T", "P", "/", "1", ".", "1", "\r", "\n", "\r", "\n">>

\* OPTIONS with the target * and a body of one byte
OptionsStarLength == <<"O", "P", "T", "I", "O", "N", "S", " ", "*", " ", "H", "T", "T", "P", "/", "1", ".", "1", "\r", "\n", "C", "o", "n", "t", "e", "n", "t", "-", "L", "e", "n", "g", "t", "h", ":", "1", "\r", "\n", "\r", "\n", "a">>

\* a POST for the file f of the web root
PostFile == <<"P", "O", "S", "T", " ", "/", "f", " ", "H", "T", "T", "P", "/", "1", ".", "1", "\r", "\n", "\r", "\n">>

WellFormed == {GetRoot, GetFile, GetClose, GetMissingHtml, PostLength, PostChunked}

Malformed == {BadMethod, BadMethodByte, BadVersion, BadTarget, BadHeaderToken, BadHeaderLetter, BadLength, BadLengthLower, BadNoCrlf, BadChunkSize}

Misframed == {PostLengthShort, PostLengthLong, PostLengthZero, PostBothFramings}

\* Well-formed requests that are dispatched on their method.
ByMethod == {OptionsStar, OptionsStarLength, PostFile}

Catalog == WellFormed \cup Malformed \cup Misframed \cup ByMethod

\* ------------------------------------------------------------------------
\* Bounds
\* ------------------------------------------------------------------------

\* The largest max_requests of a keep-alive policy of the model.
MaxBudget == 2

\* The number of requests a peer starts on one connection.
MaxPeerRequests == 2

\* The number of reads of one connection that time out.
MaxTimeouts == 2

\* The number of requests a peer writes in two pieces; it writes the later
\* ones in one piece.
MaxSplitRequests == 1

\* ------------------------------------------------------------------------
\* Initial states: Server::handle_connection up to the loop
\* ------------------------------------------------------------------------

KeepAliveOn(max) == [on |-> TRUE, max_requests |-> max, timeout |-> 1, include_header |-> TRUE]

\* KeepAliveConfig::On with include_header false.
KeepAliveQuiet(max) == [on |-> TRUE, max_requests |-> max, timeout |-> 1, include_header |-> FALSE]

KeepAliveConfigs == {KeepAliveOff} \cup {KeepAliveOn(m) : m \in 0..MaxBudget}

NoRules == <<>>

InitConnection(rule_sets, scripts) ==
    /\ server \in [keep_alive : KeepAliveConfigs, timeout : {1}, listener : {"test"}, rules : rule_sets]
    /\ env = [overflow |-> "unset", timeout_kind |-> "unset"]
    /\ state = StNew
    /\ persistent = server.keep_alive.on
    /\ max_requests = (IF server.keep_alive.on THEN server.keep_alive.max_requests ELSE 0)
    /\ read_timeout = (IF server.keep_alive.on THEN server.keep_alive.timeout ELSE server.timeout)
    /\ served_requests_count = 0
    /\ reader = ReaderBefore
    /\ stream_in = <<>>
    /\ peer \in [mode : {"open"}, pending : {<<>>}, sent : {0}, whole : {<<>>}, writes : {0}, script : scripts]
    /\ wire = [count |-> 0, last |-> NoResponse, request |-> NoRequest, served_before |-> 0,
               should_close |-> FALSE, request_timeouts |-> 0]
    /\ dispatched = [count |-> 0, last |-> NoRequest, via |-> "none", at |-> 0]
    /\ timeouts = [count |-> 0, idle |-> 0]

Init == InitConnection({NoRules}, {"any"}) /\ unit = NoUnit

\* ------------------------------------------------------------------------
\* The peer
\* ------------------------------------------------------------------------

\* A GET of n bytes: the value of its header pads it to that length.
GetOfLength(n) ==
    <<"G", "E", "T", " ", "/", " ", "H", "T", "T", "P", "/", "1", ".", "1", "\r", "\n", "X", ":">>
        \o [i \in 1..(n - 22) |-> "a"] \o <<"\r", "\n", "\r", "\n">>

\* Requests as long as one and as two buffers of a stream.read, and one a
\* byte shorter.
BufferFilling == {GetOfLength(StreamBufLen - 1), GetOfLength(StreamBufLen), GetOfLength(2 * StreamBufLen)}

\* The requests of a peer that stalls: one without a body, one with a body
\* of each framing, and one the parser does not return from.
Stalling == {GetRoot, PostLength, PostChunked, BadLengthLower}

\* The requests a peer sends: any request of the catalog, the ones that fill
\* the read buffer, the ones of a stalling peer, or the well-formed ones.
Requests ==
    IF peer.script = "any" THEN Catalog
    ELSE IF peer.script = "filling" THEN BufferFilling
    ELSE IF peer.script = "stalling" THEN Stalling
    ELSE WellFormed

\* The lengths of the first piece the peer writes of request r.  A stalling
\* peer stops in the request line, before the last byte, or not at all.
FirstWriteLengths(r) ==
    IF peer.script = "any" /\ peer.sent < MaxSplitRequests THEN 1..Len(r)
    ELSE IF peer.script = "filling" /\ Len(r) > StreamBufLen THEN {StreamBufLen, Len(r)}
    ELSE IF peer.script = "stalling" /\ peer.sent < MaxSplitRequests THEN {4, Len(r) - 1, Len(r)}
    ELSE {Len(r)}

\* The peer writes the first k bytes of a request.
PeerSendFirst ==
    /\ ~Terminated
    /\ peer.mode = "open" /\ peer.pending = <<>> /\ stream_in = <<>>
    /\ peer.sent < MaxPeerRequests
    /\ \E r \in Requests : \E k \in FirstWriteLengths(r) :
          /\ stream_in' = SubSeq(r, 1, k)
          /\ peer' = [peer EXCEPT !.pending = Drop(r, k), !.sent = @ + 1, !.whole = r, !.writes = 1]
    /\ UNCHANGED <<unit, server, env, state, persistent, max_requests, served_requests_count, read_timeout,
                   reader, wire, dispatched, timeouts>>

\* The peer writes the rest of the request.
PeerSendRest ==
    /\ ~Terminated
    /\ peer.mode = "open" /\ peer.pending # <<>>
    /\ stream_in' = stream_in \o peer.pending
    /\ peer' = [peer EXCEPT !.pending = <<>>, !.writes = 2]
    /\ UNCHANGED <<unit, server, env, state, persistent, max_requests, served_requests_count, read_timeout,
                   reader, wire, dispatched, timeouts>>

\* The peer closes its side of the connection.
PeerClose ==
    /\ ~Terminated
    /\ peer.mode = "open"
    /\ peer' = [peer EXCEPT !.mode = "fin"]
    /\ UNCHANGED <<unit, server, env, state, persistent, max_requests, served_requests_count, read_timeout,
                   reader, stream_in, wire, dispatched, timeouts>>

\* The peer resets the connection.
PeerReset ==
    /\ ~Terminated
    /\ peer.mode = "open"
    /\ peer' = [peer EXCEPT !.mode = "rst"]
    /\ stream_in' = <<>>
    /\ UNCHANGED <<unit, server, env, state, persistent, max_requests, served_requests_count, read_timeout,
                   reader, wire, dispatched, timeouts>>

\* ------------------------------------------------------------------------
\* The steps of the worker
\* ------------------------------------------------------------------------

\* HandleConnectionState::New
New ==
    /\ state.tag = "New"
    /\ state' = StRead(NoRequest)
    /\ UNCHANGED <<unit, server, env, persistent, max_requests, served_requests_count, read_timeout,
                   reader, stream_in, peer, wire, dispatched, timeouts>>

\* HandleConnectionStateMachine::read up to the first stream.read: the read
\* strategy is chosen and Connection::read starts.
ReadStart ==
    /\ state.tag = "Read" /\ reader.state = "Before"
    /\ LET strategy == ReadStrategyOf(state.request)
       IN  IF strategy.kind = "unreachable"
           THEN state' = StPanic /\ UNCHANGED <<env, reader>>
           ELSE IF strategy.length < 0
           THEN \E mode \in OverflowModes :
                   /\ env' = [env EXCEPT !.overflow = mode]
                   /\ IF mode = "checked"
                      THEN state' = StPanic /\ UNCHANGED reader
                      ELSE /\ reader' = [ReaderBefore EXCEPT !.state = "Read",
                                            !.read_strategy = UntilNoBytesRead(strategy.length + UsizeModulus)]
                           /\ UNCHANGED state
           ELSE /\ reader' = [ReaderBefore EXCEPT !.state = "Read", !.read_strategy = strategy]
                /\ UNCHANGED <<env, state>>
    /\ UNCHANGED <<unit, server, persistent, max_requests, served_requests_count, read_timeout,
                   stream_in, peer, wire, dispatched, timeouts>>

\* Connection::read has returned: the rest of HandleConnectionStateMachine::read.
ReadReturns(outcome) ==
    /\ state' = outcome.next
    /\ dispatched' = Dispatch(outcome)
    /\ reader' = ReaderBefore

\* ReadStateMachine::read: one stream.read that returns bytes, then
\* check_if_finished unless the bytes fill the buffer.
StreamRead ==
    /\ state.tag = "Read" /\ reader.state = "Read"
    /\ stream_in # <<>>
    /\ LET n == IF Len(stream_in) < StreamBufLen THEN Len(stream_in) ELSE StreamBufLen
           all == reader.read_bytes \o SubSeq(stream_in, 1, n)
           read_bytes == reader.loop_read_bytes + n
       IN  /\ stream_in' = Drop(stream_in, n)
           /\ IF n = StreamBufLen
              THEN /\ reader' = [reader EXCEPT !.read_bytes = all, !.loop_read_bytes = read_bytes]
                   /\ UNCHANGED <<state, dispatched>>
              ELSE IF check_if_finished(reader.read_strategy, all, read_bytes)
              THEN ReadReturns(ReadOk(state.request, all))
              ELSE /\ reader' = [reader EXCEPT !.read_bytes = all, !.loop_read_bytes = 0]
                   /\ UNCHANGED <<state, dispatched>>
    /\ UNCHANGED <<unit, server, env, persistent, max_requests, served_requests_count, read_timeout,
                   peer, wire, timeouts>>

\* ReadStateMachine::read: stream.read returns 0, the peer has closed.
StreamEof ==
    /\ state.tag = "Read" /\ reader.state = "Read"
    /\ stream_in = <<>> /\ peer.mode = "fin"
    /\ IF check_if_finished(reader.read_strategy, reader.read_bytes, reader.loop_read_bytes)
       THEN ReadReturns(ReadOk(state.request, reader.read_bytes))
       ELSE /\ reader' = [reader EXCEPT !.loop_read_bytes = 0]
            /\ UNCHANGED <<state, dispatched>>
    /\ UNCHANGED <<unit, server, env, persistent, max_requests, served_requests_count, read_timeout,
                   stream_in, peer, wire, timeouts>>

\* ReadStateMachine::read: stream.read fails, the read timeout has passed.
StreamTimeout ==
    /\ state.tag = "Read" /\ reader.state = "Read"
    /\ stream_in = <<>> /\ peer.mode = "open"
    /\ timeouts.count < MaxTimeouts
    /\ timeouts' = [count |-> timeouts.count + 1,
                    idle |-> timeouts.idle + (IF state.request = NoRequest THEN 1 ELSE 0)]
    /\ \E kind \in TimeoutKinds :
          /\ env' = [env EXCEPT !.timeout_kind = kind]
          /\ ReadReturns(ReadErr(kind))
    /\ UNCHANGED <<unit, server, persistent, max_requests, served_requests_count, read_timeout,
                   stream_in, peer, wire>>

\* ReadStateMachine::read: stream.read fails, the peer has reset the connection.
StreamReset ==
    /\ state.tag = "Read" /\ reader.state = "Read"
    /\ peer.mode = "rst"
    /\ ReadReturns(ReadErr("ConnectionReset"))
    /\ UNCHANGED <<unit, server, env, persistent, max_requests, served_requests_count, read_timeout,
                   stream_in, peer, wire, timeouts>>

\* HandleConnectionStateMachine::client_error
ClientError ==
    /\ state.tag = "ClientError"
    /\ state' = StSendResponse(state.request, error_response(state.request, state.status_code))
    /\ UNCHANGED <<unit, server, env, persistent, max_requests, served_requests_count, read_timeout,
                   reader, stream_in, peer, wire, dispatched, timeouts>>

\* HandleConnectionStateMachine::send_response, the rules applied to the
\* response of a request.
RulesApplied(request, response) ==
    IF request # NoRequest THEN apply_rules(server.rules, request, response)
    ELSE [result |-> "Ok", response |-> response]

\* should_close of a state machine that does not look at the request.
should_close_by_budget(request, last_index) ==
    \/ ~persistent
    \/ served_requests_count = last_index

\* HandleConnectionStateMachine::send_response, should_close.  last_index is
\* the value of max_requests - 1.
should_close(request, last_index) ==
    \/ ~persistent
    \/ served_requests_count = last_index
    \/ (request # NoRequest /\ HeadersHas(request.headers, B_Connection, B_close))

\* The response send_response writes.
ResponseToWrite(response, closing) ==
    IF closing THEN set_header(response, "Connection", "close") ELSE response

\* send_response from connection.write on, the write having returned Ok.
Written(request, response, closing) ==
    /\ wire' = [count |-> wire.count + 1,
                last |-> ResponseToWrite(response, closing),
                request |-> request,
                served_before |-> served_requests_count,
                should_close |-> closing,
                request_timeouts |-> wire.request_timeouts + (IF response.status_code = 408 THEN 1 ELSE 0)]
    /\ served_requests_count' = (served_requests_count + 1) % U8Modulus
    /\ state' = IF closing THEN StClose ELSE StRead(NoRequest)

\* HandleConnectionStateMachine::send_response, connection.write returns Ok.
\* max_requests - 1 is evaluated only on a persistent connection; it
\* overflows when max_requests is 0.
SendResponse ==
    /\ state.tag = "SendResponse"
    /\ peer.mode # "rst"
    /\ LET applied == RulesApplied(state.request, state.response)
       IN  IF applied.result = "Panic"
           THEN state' = StPanic /\ UNCHANGED <<env, wire, served_requests_count>>
           ELSE IF persistent /\ max_requests = 0
           THEN \E mode \in OverflowModes :
                   /\ env' = [env EXCEPT !.overflow = mode]
                   /\ IF mode = "checked"
                      THEN state' = StPanic /\ UNCHANGED <<wire, served_requests_count>>
                      ELSE Written(state.request, applied.response,
                                   should_close(state.request, (max_requests - 1) % U8Modulus))
           ELSE /\ Written(state.request, applied.response, should_close(state.request, max_requests - 1))
                /\ UNCHANGED env
    /\ UNCHANGED <<unit, server, persistent, max_requests, read_timeout, reader, stream_in, peer,
                   dispatched, timeouts>>

\* HandleConnectionStateMachine::send_response, connection.write returns Err:
\* the peer has reset the connection.
SendResponseWriteError ==
    /\ state.tag = "SendResponse"
    /\ peer.mode = "rst"
    /\ LET applied == RulesApplied(state.request, state.response)
       IN  IF applied.result = "Panic"
           THEN state' = StPanic /\ UNCHANGED env
           ELSE IF persistent /\ max_requests = 0
           THEN \E mode \in OverflowModes :
                   /\ env' = [env EXCEPT !.overflow = mode]
                   /\ state' = IF mode = "checked" THEN StPanic ELSE StError("ConnectionReset")
           ELSE state' = StError("ConnectionReset") /\ UNCHANGED env
    /\ UNCHANGED <<unit, server, persistent, max_requests, served_requests_count, read_timeout, reader,
                   stream_in, peer, wire, dispatched, timeouts>>

Next ==
    \/ PeerSendFirst
    \/ PeerSendRest
    \/ PeerClose
    \/ PeerReset
    \/ New
    \/ ReadStart
    \/ StreamRead
    \/ StreamEof
    \/ StreamTimeout
    \/ StreamReset
    \/ ClientError
    \/ SendResponse
    \/ SendResponseWriteError

Spec == Init /\ [][Next]_vars

\* A connection whose peer sends requests that fill the read buffer.
InitTransport == InitConnection({NoRules}, {"filling"}) /\ unit = NoUnit

SpecTransport == InitTransport /\ [][Next]_vars

\* ------------------------------------------------------------------------
\* A server with rules
\* ------------------------------------------------------------------------

Str(value) == [lit |-> "String", val |-> value]

SetHeader(name, value) == [kind |-> "Func", name |-> "set_header", args |-> <<Str(name), Str(value)>>]

\* a rule for every url that sets a header and goes on
RuleSetHeader == [pattern |-> <<"/">>, statements |-> <<SetHeader("X-Served-By", "http-rs")>>]

\* a rule for every url that sets the Content-Length of the response
RuleSetLength == [pattern |-> <<"/">>, statements |-> <<SetHeader("Content-Length", "1")>>]

\* a rule for /f that redirects
RuleRedirect == [pattern |-> <<"/", "f">>,
                 statements |-> <<[kind |-> "Redirect", code |-> 301, location |-> "/"]>>]

\* a rule for /x that returns a body
RuleReturnBody == [pattern |-> <<"/", "x">>,
                   statements |-> <<SetHeader("Content-Type", "text/plain"),
                                    [kind |-> "Return", code |-> 200, body |-> <<"h", "e", "y">>]>>]

\* a rule for every url that returns a status and no body
RuleReturnStatus == [pattern |-> <<"/">>,
                     statements |-> <<[kind |-> "Return", code |-> 404, body |-> NoValue]>>]

\* a rule for every url that sets Connection: close
RuleSetClose == [pattern |-> <<"/">>, statements |-> <<SetHeader("Connection", "close")>>]

RuleSets == {<<RuleSetHeader>>,
             <<RuleSetClose>>,
             <<RuleSetHeader, RuleSetLength>>,
             <<RuleRedirect, RuleReturnBody, RuleSetHeader>>,
             <<RuleReturnStatus, RuleSetLength>>}

\* The peers of a server with rules send well-formed requests, each in one piece.
InitRules == InitConnection(RuleSets, {"whole"}) /\ unit = NoUnit

\* Such a peer has no rest of a request to write.
NextRules ==
    \/ PeerSendFirst
    \/ PeerClose
    \/ PeerReset
    \/ New
    \/ ReadStart
    \/ StreamRead
    \/ StreamEof
    \/ StreamTimeout
    \/ StreamReset
    \/ ClientError
    \/ SendResponse
    \/ SendResponseWriteError

SpecRules == InitRules /\ [][NextRules]_vars

\* ------------------------------------------------------------------------
\* The header lines of one request head: the loop of parse_headers
\* ------------------------------------------------------------------------

\* The number of header lines of a request head.
MaxHeaderLines == 3

B_content_length == <<"c", "o", "n", "t", "e", "n", "t", "-", "l", "e", "n", "g", "t", "h">>

HeaderNames == {<<"a">>, <<"A">>, <<"b">>, B_ContentLength, B_content_length}

HeaderValues == {<<"1">>, <<"2">>, <<"x">>, <<"X">>}

\* A connection that has not started, next to the unit a specification works on.
InitUnit(value) ==
    /\ InitConnection({NoRules}, {"whole"})
    /\ server.keep_alive = KeepAliveOff
    /\ unit = value

\* Headers::new, before the first line of the head.
InitHeaders == InitUnit([of |-> "headers", inner |-> <<>>, lines |-> <<>>, rejected |-> FALSE])

\* One turn of the loop of parse_headers on a line "name:value": the request
\* is rejected if the header is not valid, and the header is added otherwise.
ParseHeaderLine ==
    /\ ~unit.rejected
    /\ Len(unit.lines) < MaxHeaderLines
    /\ \E header_name \in HeaderNames, header_value \in HeaderValues :
          unit' = IF ~is_header_valid(header_name, header_value)
                  THEN [unit EXCEPT !.lines = Append(@, <<header_name, header_value>>),
                                    !.rejected = TRUE]
                  ELSE [unit EXCEPT !.lines = Append(@, <<header_name, header_value>>),
                                    !.inner = HeadersAdd(@, header_name, header_value)]
    /\ UNCHANGED connection_vars

NextHeaders == ParseHeaderLine

SpecHeaders == InitHeaders /\ [][NextHeaders]_vars

\* ------------------------------------------------------------------------
\* The dispatcher: Server::prepare_response and Server::serve_content on one
\* parsed request
\* ------------------------------------------------------------------------

Methods == {"Get", "Head", "Options", "Post", "Put", "Patch", "Delete"}

\* The root, a file, no file, a file outside the root by .. and by a symbolic
\* link, a file by way of a directory, and the asterisk.
Urls ==
    {<<"/">>, <<"/", "f">>, <<"/", "x">>, <<"/", ".", ".", "/", "s">>, <<"/", "p", "o", "s", "t">>,
     <<"/", "d", "/", ".", ".", "/", "f">>, <<"*">>}

\* No header, an Accept header, and a Content-Length header with its body.
HeadersAndBodies ==
    {[headers |-> <<>>, body |-> <<>>],
     [headers |-> << <<B_Accept, <<"*", "/", "*">>>> >>, body |-> <<>>],
     [headers |-> << <<B_ContentLength, <<"1">>>> >>, body |-> <<"a">>]}

ParsedRequests ==
    {[method |-> m, url |-> u, headers |-> h.headers, body |-> h.body] :
        m \in Methods, u \in Urls, h \in HeadersAndBodies}

InitDispatch ==
    /\ InitConnection({NoRules}, {"whole"})
    /\ server.keep_alive = KeepAliveOff
    /\ unit \in [of : {"dispatch"},
                 server : [keep_alive : {KeepAliveOff, KeepAliveOn(MaxBudget), KeepAliveQuiet(MaxBudget)},
                           listener : Listeners],
                 request : ParsedRequests,
                 via : {"none"}, listened : {FALSE}, response : {NoResponse}]

\* HandleConnectionStateMachine::read in Read(None): the head holds the whole
\* request, which goes to prepare_response.
DispatchHead ==
    /\ unit.via = "none"
    /\ unit' = [unit EXCEPT !.via = "prepare_response",
                            !.listened = prepare_response_run(unit.server, unit.request).listened,
                            !.response = prepare_response(unit.server, unit.request)]
    /\ UNCHANGED connection_vars

\* HandleConnectionStateMachine::read in Read(Some(request)): the body has
\* arrived in a later read, and the request goes to serve_content.
DispatchBody ==
    /\ unit.via = "none"
    /\ body_type(unit.request) # "None"
    /\ unit' = [unit EXCEPT !.via = "serve_content",
                            !.listened = serve_content_run(unit.server, unit.request).listened,
                            !.response = serve_content(unit.server, unit.request)]
    /\ UNCHANGED connection_vars

NextDispatch == DispatchHead \/ DispatchBody

SpecDispatch == InitDispatch /\ [][NextDispatch]_vars

\* ------------------------------------------------------------------------
\* The rules applied to one response: the loop of apply_rules, then the
\* write of send_response
\* ------------------------------------------------------------------------

Ident(s) == [e |-> "Value", kind |-> "Ident", s |-> s, n |-> 0]

LitStr(s) == [e |-> "Value", kind |-> "LitStr", s |-> s, n |-> 0]

LitInt(n) == [e |-> "Value", kind |-> "LitInt", s |-> "", n |-> n]

Binary(lhs, operator, rhs) == [e |-> "Expr", lhs |-> lhs, operator |-> operator, rhs |-> rhs]

Call(target, args) == Binary(target, "Call", [e |-> "Many", args |-> args])

If(condition_expr, statements) == [kind |-> "If", condition_expr |-> condition_expr, statements |-> statements]

ExprStatement(expr) == [kind |-> "Expr", expr |-> expr]

\* matches /f {
\*     response.set_header("X-A", "1");
\*     if request.method == "Get" {
\*         if request.method != "Post" { return 403 "no"; }
\*         set_header("X-B", "2");
\*     }
\*     set_header("X-C", "3");
\* }
RuleNested ==
    [pattern |-> <<"/", "f">>,
     statements |-> <<ExprStatement(Call(Binary(Ident("response"), "Dot", Ident("set_header")),
                                         <<LitStr("X-A"), LitStr("1")>>)),
                      If(Binary(Binary(Ident("request"), "Dot", Ident("method")), "Eq", LitStr("Get")),
                         <<If(Binary(Binary(Ident("request"), "Dot", Ident("method")), "NotEq", LitStr("Post")),
                              <<[kind |-> "Return", code |-> 403, body |-> <<"n", "o">>]>>),
                           SetHeader("X-B", "2")>>),
                      SetHeader("X-C", "3")>>]

\* matches / { set_header("X-Tail", "t"); }
RuleTail == [pattern |-> <<"/">>, statements |-> <<SetHeader("X-Tail", "t")>>]

\* Statements that go wrong when they are evaluated:
\*     foo.bar;                  an unresolved identifier
\*     request.nope;             an undefined member
\*     "a" && "b";               an operand of && that is no boolean
\*     if "a" { }                a condition that is no boolean
\*     if foo.bar { }            a condition that raises an error
\*     log(1);                   a wrongly typed argument
\*     response.set_header("a"); too few arguments
\*     set_header("a");          too few arguments
\*     if request.method == 1 { return 404; }   a comparison of two kinds
Raising ==
    <<ExprStatement(Binary(Ident("foo"), "Dot", Ident("bar"))),
      ExprStatement(Binary(Ident("request"), "Dot", Ident("nope"))),
      ExprStatement(Binary(LitStr("a"), "And", LitStr("b"))),
      If(LitStr("a"), <<>>),
      If(Binary(Ident("foo"), "Dot", Ident("bar")), <<>>),
      ExprStatement(Call(Ident("log"), <<LitInt(1)>>)),
      ExprStatement(Call(Binary(Ident("response"), "Dot", Ident("set_header")), <<LitStr("a")>>)),
      [kind |-> "Func", name |-> "set_header", args |-> <<Str("a")>>],
      If(Binary(Binary(Ident("request"), "Dot", Ident("method")), "Eq", LitInt(1)),
         <<[kind |-> "Return", code |-> 404, body |-> NoValue]>>)>>

\* matches /f { <the statement>  set_header("X-After", "1"); }
RuleRaising(statement) == [pattern |-> <<"/", "f">>, statements |-> <<statement, SetHeader("X-After", "1")>>]

\* matches /f {
\*     if request.method == "Get" { set_header("X-D", "4"); set_header("X-E", "5"); }
\*     set_header("X-F", "6");
\* }
RuleBranch ==
    [pattern |-> <<"/", "f">>,
     statements |-> <<If(Binary(Binary(Ident("request"), "Dot", Ident("method")), "Eq", LitStr("Get")),
                         <<SetHeader("X-D", "4"), SetHeader("X-E", "5")>>),
                      SetHeader("X-F", "6")>>]

\* The rule files of the model.
RuleFiles ==
    <<<<RuleReturnBody, RuleNested, RuleTail>>,
      <<RuleSetHeader, RuleRedirect, RuleTail>>,
      <<RuleBranch, RuleTail>>>>
    \o [i \in 1..Len(Raising) |-> <<RuleTail, RuleRaising(Raising[i]), RuleSetHeader>>]

\* The requests whose responses the rules are applied to.
RuledRequests ==
    {[method |-> m, url |-> u, headers |-> <<>>, body |-> <<>>] :
        m \in {"Get", "Post"}, u \in {<<"/">>, <<"/", "f">>, <<"/", "x">>}}

\* The state SendResponse(request, response) with the response of the
\* dispatcher, before the first rule.
InitEvaluate ==
    /\ InitConnection({NoRules}, {"whole"})
    /\ server.keep_alive = KeepAliveOff
    /\ \E file \in 1..Len(RuleFiles), request \in RuledRequests :
          unit = [of |-> "rules", rules |-> RuleFiles[file], request |-> request,
                  response |-> prepare_response(server, request),
                  at |-> 1, result |-> "Running", trace |-> <<>>, raised |-> <<>>,
                  before |-> NoResponse, prior |-> NoResponse, written |-> NoResponse]

\* The rule at hand does not match the url: continue.
RuleSkipped ==
    /\ unit.result = "Running" /\ unit.at <= Len(unit.rules)
    /\ ~RuleMatches(unit.rules[unit.at], unit.request.url)
    /\ unit' = [unit EXCEPT !.at = @ + 1, !.before = unit.response]
    /\ UNCHANGED connection_vars

\* The rule at hand matches: Rule::evaluate, and the match on its result.
RuleEvaluated ==
    /\ unit.result = "Running" /\ unit.at <= Len(unit.rules)
    /\ RuleMatches(unit.rules[unit.at], unit.request.url)
    /\ unit' = Let(evaluate_statements(unit.rules[unit.at].statements, unit.request, unit.response, <<unit.at>>, 1),
                   LAMBDA evaluated :
                   [unit EXCEPT !.at = @ + 1,
                                !.before = unit.response,
                                !.response = evaluated.response,
                                !.result = IF evaluated.result = "Continue" THEN "Running" ELSE evaluated.result,
                                !.trace = @ \o evaluated.trace,
                                !.raised = @ \o evaluated.raised,
                                !.prior = evaluated.prior])
    /\ UNCHANGED connection_vars

\* apply_rules has returned: send_response writes the response.
RulesWritten ==
    /\ \/ unit.result = "Finish"
       \/ unit.result = "Running" /\ unit.at > Len(unit.rules)
    /\ unit' = [unit EXCEPT !.result = "Written",
                            !.written = ResponseToWrite(unit.response, should_close(unit.request, max_requests - 1))]
    /\ UNCHANGED connection_vars

NextEvaluate == RuleSkipped \/ RuleEvaluated \/ RulesWritten

SpecEvaluate == InitEvaluate /\ [][NextEvaluate]_vars

\* ------------------------------------------------------------------------
\* Request::as_bytes and parse_request on the bytes of one read
\* ------------------------------------------------------------------------

\* RequestMethod as Display prints it: the name of the variant, as Debug
\* derives it.
MethodDisplay(method) ==
    CASE method = "Get" -> <<"G", "e", "t">>
      [] method = "Head" -> <<"H", "e", "a", "d">>
      [] method = "Options" -> <<"O", "p", "t", "i", "o", "n", "s">>
      [] method = "Post" -> <<"P", "o", "s", "t">>
      [] method = "Put" -> <<"P", "u", "t">>
      [] method = "Patch" -> <<"P", "a", "t", "c", "h">>
      [] method = "Delete" -> <<"D", "e", "l", "e", "t", "e">>

\* HttpVersion as Display prints it.
VersionDisplay(version) ==
    CASE version = "Http0_9" -> B_Http0_9
      [] version = "Http1_0" -> B_Http1_0
      [] version = "Http1_1" -> B_Http1_1
      [] version = "Http2" -> B_Http2

\* Request::as_bytes, the loop over the headers: "name: value" and CRLF for
\* each entry of the vector.
RECURSIVE RequestHeaderLines(_)
RequestHeaderLines(inner) ==
    IF inner = <<>> THEN <<>>
    ELSE inner[1][1] \o <<COLON, SP>> \o inner[1][2] \o CRLF \o RequestHeaderLines(Tail(inner))

\* Request::as_bytes.  The version of a parsed request is HTTP/1.1, the one
\* version parse_request_line accepts.
request_as_bytes(request) ==
    MethodDisplay(request.method) \o <<SP>> \o request.url \o <<SP>> \o VersionDisplay("Http1_1") \o CRLF
        \o RequestHeaderLines(request.headers) \o CRLF \o request.body

NotParsed == [kind |-> "none"]

\* What one read hands to parse_request: a request of the catalog, or the
\* first bytes of one.
ReadBytes == UNION {{SubSeq(r, 1, k) : k \in 1..Len(r)} : r \in Catalog}

InitRoundTrip ==
    InitUnit([of |-> "round_trip", bytes |-> <<>>, parsed |-> NotParsed, as_bytes |-> <<>>,
              again |-> NotParsed])

\* parse_request on the bytes of a read.
RequestParsed ==
    /\ unit.parsed = NotParsed
    /\ \E bytes \in ReadBytes :
          unit' = [unit EXCEPT !.bytes = bytes, !.parsed = parse_request(bytes)]
    /\ UNCHANGED connection_vars

\* Request::as_bytes on a request parse_request has returned as complete.
RequestSerialized ==
    /\ unit.parsed # NotParsed /\ unit.parsed.kind = "Ok" /\ unit.parsed.is_complete
    /\ unit.as_bytes = <<>>
    /\ unit' = [unit EXCEPT !.as_bytes = request_as_bytes(unit.parsed.request)]
    /\ UNCHANGED connection_vars

\* parse_request on the bytes Request::as_bytes has returned.
RequestParsedAgain ==
    /\ unit.as_bytes # <<>>
    /\ unit.again = NotParsed
    /\ unit' = [unit EXCEPT !.again = parse_request(unit.as_bytes)]
    /\ UNCHANGED connection_vars

NextRoundTrip == RequestParsed \/ RequestSerialized \/ RequestParsedAgain

SpecRoundTrip == InitRoundTrip /\ [][NextRoundTrip]_vars

\* ------------------------------------------------------------------------
\* Response::as_bytes on one response
\* ------------------------------------------------------------------------

\* The number of set_header calls on one response.
MaxSetHeaders == 3

\* StringUtils::as_bytes_vec: the bytes of a String.  The strings of a
\* response are kept whole, as one run of bytes.
as_bytes_vec(value) == <<value>>

\* ResponseStatusCode::as_bytes: the code in decimal, a space, and the reason
\* phrase.
status_code_as_bytes(status_code) == DecimalDigits(status_code) \o <<SP>> \o ReasonPhrase(status_code)

\* The orders in which a HashMap with these keys can iterate.
IterationOrders(keys) ==
    {order \in [1..Cardinality(keys) -> keys] :
        \A i, j \in 1..Cardinality(keys) : i # j => order[i] # order[j]}

\* Response::as_bytes, the loop over self.headers.iter().
RECURSIVE ResponseHeaderLines(_, _)
ResponseHeaderLines(headers, iter) ==
    IF iter = <<>> THEN <<>>
    ELSE as_bytes_vec(iter[1]) \o <<COLON, SP>> \o as_bytes_vec(headers[iter[1]]) \o CRLF
             \o ResponseHeaderLines(headers, Tail(iter))

\* Response::as_bytes that leaves out the empty line before the body.
response_as_bytes_without_empty_line(response, iter) ==
    VersionDisplay("Http1_1") \o <<SP>> \o status_code_as_bytes(response.status_code) \o CRLF
        \o ResponseHeaderLines(response.headers, iter) \o response.body

\* Response::as_bytes; iter is the order in which the HashMap of the headers
\* iterates.  The version of a response is HTTP/1.1.
response_as_bytes(response, iter) ==
    VersionDisplay("Http1_1") \o <<SP>> \o status_code_as_bytes(response.status_code) \o CRLF
        \o ResponseHeaderLines(response.headers, iter) \o CRLF \o response.body

ResponseHeaderNames == {"Content-Type", "Content-Length", "X-A"}

ResponseHeaderValues == {"3", "text/plain"}

\* A response with a status code and a body, before the first set_header.
InitSerialize ==
    /\ InitConnection({NoRules}, {"whole"})
    /\ server.keep_alive = KeepAliveOff
    /\ unit \in [of : {"serialize"},
                 response : {set_body(set_status_code(NewResponse, code), body) :
                                 code \in {200, 404}, body \in {<<>>, <<"1", "2", "3">>}},
                 inserted : {<<>>}, iter : {<<>>}, calls : {0}, first : {<<>>}, second : {<<>>}]

\* Response::set_header.  inserted is the order in which the names were first
\* inserted; a new key leaves the map iterating in any order, a key it holds
\* keeps its place.
ResponseSetHeader ==
    /\ unit.first = <<>>
    /\ unit.calls < MaxSetHeaders
    /\ \E header_name \in ResponseHeaderNames, header_value \in ResponseHeaderValues :
          LET response == set_header(unit.response, header_name, header_value)
          IN  IF header_name \in DOMAIN unit.response.headers
              THEN unit' = [unit EXCEPT !.response = response, !.calls = @ + 1]
              ELSE \E iter \in IterationOrders(DOMAIN response.headers) :
                      unit' = [unit EXCEPT !.response = response, !.calls = @ + 1,
                                           !.inserted = Append(@, header_name), !.iter = iter]
    /\ UNCHANGED connection_vars

\* Response::as_bytes
ResponseSerialized ==
    /\ unit.first = <<>>
    /\ unit' = [unit EXCEPT !.first = response_as_bytes(unit.response, unit.iter)]
    /\ UNCHANGED connection_vars

\* Response::as_bytes on the same response once more.
ResponseSerializedAgain ==
    /\ unit.first # <<>> /\ unit.second = <<>>
    /\ unit' = [unit EXCEPT !.second = response_as_bytes(unit.response, unit.iter)]
    /\ UNCHANGED connection_vars

NextSerialize == ResponseSetHeader \/ ResponseSerialized \/ ResponseSerializedAgain

SpecSerialize == InitSerialize /\ [][NextSerialize]_vars

\* ------------------------------------------------------------------------
\* parse_chunked_body on a chunked body and on its first bytes
\* ------------------------------------------------------------------------

\* chunks of 1 and 2 bytes
ChunksOneAndTwo == <<"1", "\r", "\n", "a", "\r", "\n", "2", "\r", "\n", "b", "c", "\r", "\n", "0", "\r", "\n", "\r", "\n">>

\* a chunk of 10 bytes with the size line a
ChunkOfHexTen == <<"a", "\r", "\n", "0", "1", "2", "3", "4", "5", "6", "7", "8", "9", "\r", "\n", "0", "\r", "\n", "\r", "\n">>

\* a chunk of 16 bytes with the size line 10
ChunkOfHexSixteen ==
    <<"1", "0", "\r", "\n", "0", "1", "2", "3", "4", "5", "6", "7", "8", "9", "a", "b", "c", "d", "e", "f",
      "\r", "\n", "0", "\r", "\n", "\r", "\n">>

\* a chunk of 4 bytes with CR LF among them
ChunkWithCrlf == <<"4", "\r", "\n", "a", "\r", "\n", "b", "\r", "\n", "0", "\r", "\n", "\r", "\n">>

ChunkedBodies == {ChunksOneAndTwo, ChunkOfHexTen, ChunkOfHexSixteen, ChunkWithCrlf}

\* The first cut bytes of a chunked body are what parse_chunked_body is
\* called with.
InitChunked ==
    /\ InitConnection({NoRules}, {"whole"})
    /\ server.keep_alive = KeepAliveOff
    /\ unit \in UNION {[of : {"chunked"}, whole : {body}, cut : 0..Len(body), result : {NotParsed}] :
                          body \in ChunkedBodies}

\* parse_chunked_body
ChunkedBodyParsed ==
    /\ unit.result = NotParsed
    /\ unit' = [unit EXCEPT !.result = parse_chunked_body(SubSeq(unit.whole, 1, unit.cut))]
    /\ UNCHANGED connection_vars

NextChunked == ChunkedBodyParsed

SpecChunked == InitChunked /\ [][NextChunked]_vars

\* ------------------------------------------------------------------------
\* Server::run: the acceptor threads, the stop flag, the channel and the
\* worker threads
\* ------------------------------------------------------------------------

\* The number of connections clients open to the listeners of one run.
MaxConnections == 3

\* Server::run up to rx.recv(): one acceptor thread for the listener of the
\* configured port and, with an HTTPS configuration, one for the listener of
\* port 443.  stop is the Arc<bool> run is called with; acceptors[i] is the
\* place acceptor i is at, backlog[i] the connections its listener has not
\* accepted, workers the threads spawned for accepted connections, channel
\* the indices sent and not received, reported the indices ever sent.
InitRun ==
    /\ InitConnection({NoRules}, {"whole"})
    /\ server.keep_alive = KeepAliveOff
    /\ unit \in UNION {[of : {"run"}, stop : BOOLEAN,
                        acceptors : {[i \in 1..n |-> "incoming"]},
                        backlog : {[i \in 1..n |-> 0]},
                        connections : {0}, workers : {<<>>}, channel : {<<>>}, reported : {{}},
                        run : {"recv"}] : n \in {1, 2}}

\* A client connects to listener i.
ClientConnects(i) ==
    /\ unit.connections < MaxConnections
    /\ unit' = [unit EXCEPT !.connections = @ + 1, !.backlog[i] = @ + 1]
    /\ UNCHANGED connection_vars

\* The acceptor: listener.incoming() yields a stream, and a worker thread is
\* spawned for it.
AcceptorAccepts(i) ==
    /\ unit.acceptors[i] = "incoming"
    /\ unit.backlog[i] > 0
    /\ unit' = [unit EXCEPT !.backlog[i] = @ - 1,
                            !.workers = Append(@, [by |-> i, at |-> "spawned"]),
                            !.acceptors[i] = "check"]
    /\ UNCHANGED connection_vars

\* The acceptor: if *stop { break }, after the spawn.
AcceptorChecksStop(i) ==
    /\ unit.acceptors[i] = "check"
    /\ unit' = [unit EXCEPT !.acceptors[i] = IF unit.stop THEN "send" ELSE "incoming"]
    /\ UNCHANGED connection_vars

\* The acceptor: tx.send(index).unwrap().  The send fails when the receiver
\* is dropped, which it is when run has returned, and unwrap panics.
AcceptorSends(i) ==
    /\ unit.acceptors[i] = "send"
    /\ unit' = IF unit.run = "recv"
               THEN [unit EXCEPT !.channel = Append(@, i), !.reported = @ \cup {i},
                                 !.acceptors[i] = "done"]
               ELSE [unit EXCEPT !.acceptors[i] = "panicked"]
    /\ UNCHANGED connection_vars

\* Server::run: rx.recv() returns the first index sent, and run returns
\* Ok(()), dropping the receiver.
RunReceives ==
    /\ unit.run = "recv"
    /\ unit.channel # <<>>
    /\ unit' = [unit EXCEPT !.channel = <<>>, !.run = "returned"]
    /\ UNCHANGED connection_vars

\* A worker thread: handle_connection is called, and returns when the state
\* machine of the connection has come to Close or Error.
WorkerRuns(w) ==
    /\ unit.workers[w].at \in {"spawned", "handling"}
    /\ unit' = [unit EXCEPT !.workers[w].at = IF @ = "spawned" THEN "handling" ELSE "returned"]
    /\ UNCHANGED connection_vars

NextRun ==
    \/ \E i \in DOMAIN unit.acceptors : ClientConnects(i)
    \/ \E i \in DOMAIN unit.acceptors : AcceptorAccepts(i)
    \/ \E i \in DOMAIN unit.acceptors : AcceptorChecksStop(i)
    \/ \E i \in DOMAIN unit.acceptors : AcceptorSends(i)
    \/ RunReceives
    \/ \E w \in DOMAIN unit.workers : WorkerRuns(w)

SpecRun == InitRun /\ [][NextRun]_vars

\* ------------------------------------------------------------------------
\* The rules file: tokenize (src/src/rules/lexer.rs), the grammar
\* (src/src/rules/grammar.rs), parse_file and Server::new
\* ------------------------------------------------------------------------

\* The statements of a rule body of the model.
MaxStatements == 3

\* A lexeme of a rules file, between two runs of whitespace: the character
\* tokenize dispatches on ("a" for a letter or an underscore, "0" for a
\* digit), the text read from there, the same text as characters where the
\* evaluator works on characters, and whether the lexeme ends as its kind
\* requires: a string with its quote, an integer with no letter after it.
Lexeme(start, text, chars, closed) == [start |-> start, text |-> text, chars |-> chars, closed |-> closed]

Word(text) == Lexeme("a", text, <<>>, TRUE)

Quoted(text) == Lexeme("\"", text, <<>>, TRUE)

Digits(chars) == Lexeme("0", "", chars, TRUE)

Punct(text) == Lexeme(text, text, <<>>, TRUE)

\* RuleToken: the position is the index of the lexeme (its line and column).
Token(kind, lexeme, position) == [kind |-> kind, val |-> lexeme.text, chars |-> lexeme.chars, position |-> position]

\* The token after the file's last one.
EOF_TOKEN == [kind |-> "Eof", val |-> "", chars |-> <<>>, position |-> 0]

SyntaxError(detail, position) == [ok |-> FALSE, error |-> "Syntax", detail |-> detail, position |-> position]

SemanticError(detail, position) == [ok |-> FALSE, error |-> "Semantic", detail |-> detail, position |-> position]

Parsed(value, at) == [ok |-> TRUE, value |-> value, at |-> at]

\* The match of tokenize on the character of a lexeme.
TokenKindOf(lexeme) ==
    CASE lexeme.start = "{" -> "LBrace"
      [] lexeme.start = "}" -> "RBrace"
      [] lexeme.start = "(" -> "LParen"
      [] lexeme.start = ")" -> "RParen"
      [] lexeme.start = "," -> "Comma"
      [] lexeme.start = ";" -> "Semicolon"
      [] lexeme.start = "." -> "Dot"
      [] lexeme.start = "\"" -> IF lexeme.closed THEN "LitStr" ELSE "UnterminatedString"
      [] lexeme.start = "=" -> IF lexeme.text = "==" THEN "Eq" ELSE "UnexpectedToken"
      [] lexeme.start = "!" -> IF lexeme.text = "!=" THEN "NotEq" ELSE "UnexpectedToken"
      [] lexeme.start = "&" -> IF lexeme.text = "&&" THEN "And" ELSE "UnexpectedToken"
      [] lexeme.start = "|" -> IF lexeme.text = "||" THEN "Or" ELSE "UnexpectedToken"
      [] lexeme.start = "a" -> CASE lexeme.text = "matches" -> "Matches"
                                 [] lexeme.text = "redirect" -> "Redirect"
                                 [] lexeme.text = "return" -> "Return"
                                 [] lexeme.text = "if" -> "If"
                                 [] OTHER -> "Ident"
      [] lexeme.start = "0" -> IF lexeme.closed THEN "LitInt" ELSE "UnexpectedToken"
      [] lexeme.start = "#" -> "Comment"
      [] OTHER -> "UnexpectedToken"

\* The one-shot mode of tokenize: the lexeme after the keyword matches is the
\* pattern, whatever it starts with.
RECURSIVE IsPattern(_, _)
IsPattern(source, i) ==
    /\ i > 1
    /\ source[i - 1].start = "a" /\ source[i - 1].text = "matches"
    /\ ~IsPattern(source, i - 1)

\* The token tokenize pushes for the i-th lexeme.
TokenAt(source, i) ==
    IF IsPattern(source, i) THEN Token("LitStr", source[i], i)
    ELSE Token(TokenKindOf(source[i]), source[i], i)

\* tokenize: the tokens of the lexemes in their order, comments left out, or
\* the error of the first lexeme that is no token.  A file that ends with
\* the keyword matches has an empty pattern.
tokenize(source) ==
    Let([i \in 1..Len(source) |-> TokenAt(source, i)], LAMBDA tokens :
        IF \E i \in 1..Len(source) : tokens[i].kind \in {"UnterminatedString", "UnexpectedToken"}
        THEN Let(CHOOSE i \in 1..Len(source) :
                     /\ tokens[i].kind \in {"UnterminatedString", "UnexpectedToken"}
                     /\ \A j \in 1..(i - 1) : tokens[j].kind \notin {"UnterminatedString", "UnexpectedToken"},
                 LAMBDA i : SyntaxError(tokens[i].kind, i))
        ELSE Parsed(SelectSeq(tokens, LAMBDA token : token.kind # "Comment")
                        \o (IF source # <<>> /\ tokens[Len(source)].kind = "Matches"
                            THEN <<[EOF_TOKEN EXCEPT !.kind = "LitStr", !.position = Len(source) + 1]>>
                            ELSE <<>>),
                    Len(source) + 1))

\* iter.peek(), the end of the file included.
Peek(tokens, at) == IF at <= Len(tokens) THEN tokens[at] ELSE EOF_TOKEN

\* swallow, and the helpers the macro rule_helper defines (pattern, int,
\* string): the token of the kind, or a syntax error at the token found.
swallow(tokens, at, to_swallow) ==
    IF at <= Len(tokens) /\ tokens[at].kind = to_swallow THEN Parsed(tokens[at], at + 1)
    ELSE SyntaxError("ExpectedOther", Peek(tokens, at).position)

\* ResponseStatusCode::try_from(u16).is_ok()
ResponseStatusCodes ==
    {100, 101, 200, 201, 202, 204, 301, 302, 303, 304, 307, 308,
     400, 401, 403, 404, 405, 408, 418, 429, 500, 501, 502, 503, 504, 505}

\* u16::MAX + 1
U16Modulus == 65536

\* status_code: an integer literal, a u16, a recognized status code.
status_code(tokens, at) ==
    Let(swallow(tokens, at, "LitInt"), LAMBDA int :
        IF ~int.ok THEN int
        ELSE IF Len(int.value.chars) > 5 \/ DigitsValue(int.value.chars) >= U16Modulus
             THEN SyntaxError("IncorrectResponseCode", int.value.position)
        ELSE IF DigitsValue(int.value.chars) \notin ResponseStatusCodes
             THEN SyntaxError("IncorrectResponseCode", int.value.position)
        ELSE Parsed(DigitsValue(int.value.chars), int.at))

\* The loop of base_statement over the arguments of a call.
RECURSIVE base_statement_args(_, _, _)
base_statement_args(tokens, at, args) ==
    IF at > Len(tokens) THEN Parsed(args, at)
    ELSE CASE tokens[at].kind = "LitStr" ->
                  base_statement_args(tokens, at + 1, Append(args, Str(tokens[at].val)))
           [] tokens[at].kind = "LitInt" ->
                  base_statement_args(tokens, at + 1, Append(args, [lit |-> "Int", val |-> tokens[at].val]))
           [] tokens[at].kind = "Comma" -> base_statement_args(tokens, at + 1, args)
           [] tokens[at].kind = "RParen" -> Parsed(args, at)
           [] OTHER -> SyntaxError("UnexpectedToken", tokens[at].position)

\* base_statement, at an identifier: name ( arguments ) ;
base_statement(tokens, at) ==
    Let(swallow(tokens, at + 1, "LParen"), LAMBDA lparen :
        IF ~lparen.ok THEN lparen
        ELSE Let(base_statement_args(tokens, lparen.at, <<>>), LAMBDA args :
             IF ~args.ok THEN args
             ELSE Let(swallow(tokens, args.at, "RParen"), LAMBDA rparen :
                  IF ~rparen.ok THEN rparen
                  ELSE Let(swallow(tokens, rparen.at, "Semicolon"), LAMBDA semicolon :
                       IF ~semicolon.ok THEN semicolon
                       ELSE Parsed([kind |-> "Func", name |-> tokens[at].val, args |-> args.value],
                                   semicolon.at)))))

\* redirect_statement, at redirect: redirect code "location" ;
redirect_statement(tokens, at) ==
    Let(status_code(tokens, at + 1), LAMBDA response_code :
        IF ~response_code.ok THEN response_code
        ELSE Let(swallow(tokens, response_code.at, "LitStr"), LAMBDA location :
             IF ~location.ok THEN location
             ELSE Let(swallow(tokens, location.at, "Semicolon"), LAMBDA semicolon :
                  IF ~semicolon.ok THEN semicolon
                  ELSE Parsed([kind |-> "Redirect", code |-> response_code.value,
                               location |-> location.value.val], semicolon.at))))

\* return_statement, at return: return code ["body"] ;
return_statement(tokens, at) ==
    Let(status_code(tokens, at + 1), LAMBDA response_code :
        IF ~response_code.ok THEN response_code
        ELSE Let(swallow(tokens, response_code.at, "LitStr"), LAMBDA location_or_body :
             Let(swallow(tokens, IF location_or_body.ok THEN location_or_body.at ELSE response_code.at,
                         "Semicolon"), LAMBDA semicolon :
                 IF ~semicolon.ok THEN semicolon
                 ELSE Parsed([kind |-> "Return", code |-> response_code.value,
                              body |-> IF location_or_body.ok THEN location_or_body.value.chars
                                       ELSE NoValue], semicolon.at))))

\* The statement rule_statements parses at a token: a call, a redirect or a
\* return.  Every other token but } is unexpected, the keyword if included.
statement_at(tokens, at) ==
    CASE tokens[at].kind = "Ident" -> base_statement(tokens, at)
      [] tokens[at].kind = "Redirect" -> redirect_statement(tokens, at)
      [] tokens[at].kind = "Return" -> return_statement(tokens, at)
      [] OTHER -> SyntaxError("UnexpectedToken", tokens[at].position)

\* rule_statements: the statements up to the closing brace or the end of the
\* file.  A statement parsed after a return is a semantic error at the place
\* of its first token.
RECURSIVE rule_statements(_, _, _)
rule_statements(tokens, at, statements) ==
    IF at > Len(tokens) \/ tokens[at].kind = "RBrace" THEN Parsed(statements, at)
    ELSE Let(statement_at(tokens, at), LAMBDA statement :
         IF ~statement.ok THEN statement
         ELSE IF statements # <<>> /\ statements[Len(statements)].kind = "Return"
              THEN SemanticError("UnexpectedStatement", tokens[at].position)
         ELSE rule_statements(tokens, statement.at, Append(statements, statement.value)))

\* rule: matches pattern { statements }
rule(tokens, at) ==
    Let(swallow(tokens, at, "Matches"), LAMBDA matches :
        IF ~matches.ok THEN matches
        ELSE Let(swallow(tokens, matches.at, "LitStr"), LAMBDA pattern :
             IF ~pattern.ok THEN pattern
             ELSE Let(swallow(tokens, pattern.at, "LBrace"), LAMBDA lbrace :
                  IF ~lbrace.ok THEN lbrace
                  ELSE Let(rule_statements(tokens, lbrace.at, <<>>), LAMBDA statements :
                       IF ~statements.ok THEN statements
                       ELSE Let(swallow(tokens, statements.at, "RBrace"), LAMBDA rbrace :
                            IF ~rbrace.ok THEN rbrace
                            ELSE Parsed([pattern |-> pattern.value.chars,
                                         statements |-> statements.value], rbrace.at))))))

\* file: rules to the end of the tokens.
RECURSIVE file_from(_, _, _)
file_from(tokens, at, rules) ==
    IF at > Len(tokens) THEN Parsed(rules, at)
    ELSE Let(rule(tokens, at), LAMBDA parsed :
         IF ~parsed.ok THEN parsed
         ELSE file_from(tokens, parsed.at, Append(rules, parsed.value)))

file(tokens) == file_from(tokens, 1, <<>>)

\* parse_str
parse_str(source) ==
    Let(tokenize(source), LAMBDA tokens : IF ~tokens.ok THEN tokens ELSE file(tokens.value))

\* No file at the path of the rules.
NoFile == <<Lexeme("", "<no file>", <<>>, FALSE)>>

\* parse_file: File::open(path).unwrap() panics when there is no file.
parse_file(on_disk) ==
    IF on_disk = NoFile THEN [ok |-> FALSE, error |-> "Panic", detail |-> "unwrap", position |-> 0]
    ELSE parse_str(on_disk)

\* Server::new with a rules_path: the rules of the file, or the error logged
\* and no rules; the panic of parse_file is the end of Server::new.
ServerNew(on_disk) ==
    Let(parse_file(on_disk), LAMBDA parsed :
        IF parsed.ok THEN [started |-> TRUE, rules |-> parsed.value, logged |-> [error |-> "none"]]
        ELSE IF parsed.error = "Panic" THEN [started |-> FALSE, rules |-> <<>>, logged |-> [error |-> "none"]]
        ELSE [started |-> TRUE, rules |-> <<>>,
              logged |-> [error |-> parsed.error, detail |-> parsed.detail, position |-> parsed.position]])

\* set_header("X-A", "1");
FormCall ==
    <<Word("set_header"), Punct("("), Quoted("X-A"), Punct(","), Quoted("1"), Punct(")"), Punct(";")>>

\* redirect 301 "/";
FormRedirect == <<Word("redirect"), Digits(<<"3", "0", "1">>), Quoted("/"), Punct(";")>>

\* return 403;
FormReturn == <<Word("return"), Digits(<<"4", "0", "3">>), Punct(";")>>

\* return 999;
FormReturnUnknown == <<Word("return"), Digits(<<"9", "9", "9">>), Punct(";")>>

\* if request.method == "Get" { return 403; }
FormIf ==
    <<Word("if"), Word("request"), Punct("."), Word("method"), Lexeme("=", "==", <<>>, TRUE), Quoted("Get"), Punct("{")>>
        \o FormReturn \o <<Punct("}")>>

\* set_header("X-A
FormUnterminated == <<Word("set_header"), Punct("("), Lexeme("\"", "X-A", <<>>, FALSE)>>

\* set_header("X-A";
FormUnclosed == <<Word("set_header"), Punct("("), Quoted("X-A"), Punct(";")>>

StatementForms == {FormCall, FormRedirect, FormReturn, FormReturnUnknown, FormIf, FormUnterminated, FormUnclosed}

\* The bodies of a rule: up to MaxStatements statements.
RuleBodies == UNION {[1..n -> StatementForms] : n \in 0..MaxStatements}

RECURSIVE Flatten(_)
Flatten(forms) == IF forms = <<>> THEN <<>> ELSE Head(forms) \o Flatten(Tail(forms))

\* matches / { body }
RuleSource(forms) ==
    <<Word("matches"), Lexeme("/", "/", <<"/">>, TRUE), Punct("{")>> \o Flatten(forms) \o <<Punct("}")>>

\* A server configured with a rules_path: the file has one rule, or there is
\* no file.
InitLoad ==
    /\ InitConnection({NoRules}, {"whole"})
    /\ server.keep_alive = KeepAliveOff
    /\ \E forms \in RuleBodies, there \in BOOLEAN :
          unit = [of |-> "load", forms |-> forms,
                  on_disk |-> IF there THEN RuleSource(forms) ELSE NoFile,
                  stage |-> "configured", rules |-> <<>>, logged |-> [error |-> "none"],
                  request |-> NoRequest, response |-> NoResponse, written |-> NoResponse]

\* Server::new
ServerCreated ==
    /\ unit.stage = "configured"
    /\ Let(ServerNew(unit.on_disk), LAMBDA created :
           unit' = [unit EXCEPT !.stage = IF created.started THEN "started" ELSE "panicked",
                                !.rules = created.rules,
                                !.logged = created.logged])
    /\ UNCHANGED connection_vars

\* send_response of the started server: the response of the dispatcher goes
\* through apply_rules with the rules of the server.
ResponseRuled ==
    /\ unit.stage = "started"
    /\ \E request \in RuledRequests :
          unit' = [unit EXCEPT !.stage = "served",
                               !.request = request,
                               !.response = prepare_response(server, request),
                               !.written = apply_rules(unit.rules, request, prepare_response(server, request)).response]
    /\ UNCHANGED connection_vars

NextLoad == ServerCreated \/ ResponseRuled

SpecLoad == InitLoad /\ [][NextLoad]_vars

\* ------------------------------------------------------------------------
\* ReadStateMachine of a connection with or without a TLS session
\* (src/src/connection.rs)
\* ------------------------------------------------------------------------

\* A TLS record on the socket: a handshake message, application data with
\* its plaintext, or bytes that are no record.
TlsRecord(kind, plaintext) == [kind |-> kind, plaintext |-> plaintext]

\* The bytes of a record as the socket carries them: a header byte and one
\* byte for each byte of the plaintext, none of them a byte of the plaintext.
Ciphertext(record) == <<"T">> \o [i \in 1..Len(record.plaintext) |-> "*"]

\* The records of a message sent in two pieces, the first of k bytes.
TwoRecords(message, k) ==
    <<TlsRecord("application_data", SubSeq(message, 1, k)),
      TlsRecord("application_data", SubSeq(message, k + 1, Len(message)))>>

\* The socket of the model's peers: the handshake, where there is a session
\* that has not finished it, and a request in one or two records.
TlsSockets(handshaking) ==
    {(IF handshaking THEN <<TlsRecord("handshake", <<>>)>> ELSE <<>>) \o first \o data :
        first \in {<<>>, <<TlsRecord("garbage", <<>>)>>},
        data \in {<<TlsRecord("application_data", GetRoot)>>}
                 \cup {TwoRecords(message, k) : message \in {GetRoot, PostLength}, k \in 1..4}}

\* ReadStateMachine::new on a connection with (tls) or without a TLS session.
InitTls ==
    /\ InitConnection({NoRules}, {"whole"})
    /\ server.keep_alive = KeepAliveOff
    /\ \E tls \in BOOLEAN, handshaking \in BOOLEAN, read_strategy \in {UntilDoubleCrlf, UntilNoBytesRead(3)} :
          /\ handshaking => tls
          /\ \E socket \in TlsSockets(handshaking) :
                unit = [of |-> "tls", tls |-> tls, handshaking |-> handshaking, socket |-> socket,
                        read_strategy |-> read_strategy, read_bytes |-> <<>>,
                        state |-> "Before", after |-> 0, from_socket |-> 0]

\* next in ReadState::Before
ReadStateBefore ==
    /\ unit.of = "tls" /\ unit.state = "Before"
    /\ unit' = [unit EXCEPT !.state = IF ~unit.tls THEN "Read" ELSE "TlsHandshake"]
    /\ UNCHANGED connection_vars

\* next in ReadState::Read: ReadStateMachine::read appends the bytes of the
\* socket as they are; no bytes when the peer has sent everything and closed.
ReadStateRead ==
    /\ unit.of = "tls" /\ unit.state = "Read"
    /\ IF unit.socket = <<>>
       THEN unit' = [unit EXCEPT !.state = "After", !.after = 0]
       ELSE Let(IF unit.tls THEN Ciphertext(Head(unit.socket)) ELSE Head(unit.socket).plaintext,
                LAMBDA bytes :
                unit' = [unit EXCEPT !.state = "After", !.after = Len(bytes),
                                     !.read_bytes = @ \o bytes,
                                     !.from_socket = @ + Len(bytes),
                                     !.socket = Tail(@)])
    /\ UNCHANGED connection_vars

\* next in ReadState::TlsHandshake: the loop of tls_handshake reads records
\* while the session is handshaking; application data that comes with the
\* handshake is appended as plaintext.
ReadStateTlsHandshake ==
    /\ unit.of = "tls" /\ unit.state = "TlsHandshake"
    /\ IF ~unit.handshaking THEN unit' = [unit EXCEPT !.state = "TlsRead"]
       ELSE /\ unit.socket # <<>>
            /\ Let(Head(unit.socket), LAMBDA record :
                   CASE record.kind = "garbage" ->
                            unit' = [unit EXCEPT !.state = "Error", !.socket = Tail(@)]
                     [] record.kind = "handshake" ->
                            \/ unit' = [unit EXCEPT !.state = "TlsRead", !.handshaking = FALSE,
                                                    !.socket = Tail(@)]
                            \/ /\ Len(unit.socket) > 1 /\ unit.socket[2].kind = "application_data"
                               /\ unit' = [unit EXCEPT !.state = "After", !.handshaking = FALSE,
                                                       !.after = Len(unit.socket[2].plaintext),
                                                       !.read_bytes = @ \o unit.socket[2].plaintext,
                                                       !.socket = Tail(Tail(@))]
                     [] record.kind = "application_data" ->
                            unit' = [unit EXCEPT !.state = "After",
                                                 !.after = Len(record.plaintext),
                                                 !.read_bytes = @ \o record.plaintext,
                                                 !.socket = Tail(@)])
    /\ UNCHANGED connection_vars

\* next in ReadState::TlsRead: tls_read reads a record and appends its
\* plaintext.
ReadStateTlsRead ==
    /\ unit.of = "tls" /\ unit.state = "TlsRead"
    /\ IF unit.socket = <<>> THEN unit' = [unit EXCEPT !.state = "After", !.after = 0]
       ELSE IF Head(unit.socket).kind = "garbage"
       THEN unit' = [unit EXCEPT !.state = "Error", !.socket = Tail(@)]
       ELSE unit' = [unit EXCEPT !.state = "After",
                                 !.after = Len(Head(unit.socket).plaintext),
                                 !.read_bytes = @ \o Head(unit.socket).plaintext,
                                 !.socket = Tail(@)]
    /\ UNCHANGED connection_vars

\* next in ReadState::After(read_bytes): check_if_finished
ReadStateAfter ==
    /\ unit.of = "tls" /\ unit.state = "After"
    /\ unit' = [unit EXCEPT !.state = IF check_if_finished(unit.read_strategy, unit.read_bytes, unit.after)
                                      THEN "Done" ELSE "Read"]
    /\ UNCHANGED connection_vars

NextTls == ReadStateBefore \/ ReadStateRead \/ ReadStateTlsHandshake \/ ReadStateTlsRead \/ ReadStateAfter

SpecTls == InitTls /\ [][NextTls]_vars

\* ------------------------------------------------------------------------
\* The connection under a worker that runs
\* ------------------------------------------------------------------------

\* ReadStateMachine::read has bytes to return.
StreamReadEnabled == state.tag = "Read" /\ reader.state = "Read" /\ stream_in # <<>>

\* ReadStateMachine::read has the end of the stream to return.
StreamEofEnabled == state.tag = "Read" /\ reader.state = "Read" /\ stream_in = <<>> /\ peer.mode = "fin"

\* The steps of the worker thread: handle_connection loops on next() until
\* Close or Error, every stream.read returns within the read timeout the
\* worker has set on the socket, and every write returns.  The two
\* conditions on stream.read are weak fairness of StreamRead and StreamEof,
\* written with the guards of the two actions.
WorkerFairness ==
    /\ WF_vars(New)
    /\ WF_vars(ReadStart)
    /\ ([]<>~StreamReadEnabled \/ []<><<StreamRead>>_vars)
    /\ ([]<>~StreamEofEnabled \/ []<><<StreamEof>>_vars)
    /\ WF_vars(StreamTimeout)
    /\ WF_vars(StreamReset)
    /\ WF_vars(ClientError)
    /\ WF_vars(SendResponse)
    /\ WF_vars(SendResponseWriteError)

\* A connection whose peer stalls where it likes.
InitLive == InitConnection({NoRules}, {"stalling"}) /\ unit = NoUnit

\* The peer does what it likes; the worker goes on.
SpecLive == InitLive /\ [][Next]_vars /\ WorkerFairness

\* ------------------------------------------------------------------------
\* Properties
\* ------------------------------------------------------------------------

\* The written response closes the connection: it carries Connection: close
\* and the state machine is in Close.
ClosedAfterLast ==
    /\ "Connection" \in DOMAIN wire.last.headers
    /\ wire.last.headers["Connection"] = "close"
    /\ state.tag = "Close"

\* C1: on a persistent connection with max_requests = M no more than M
\* responses are written, the response written at a served count of M - 1
\* carries Connection: close and is followed by Close, and the served count
\* is the number of responses written.
C1_KeepAliveBudget ==
    persistent =>
        /\ wire.count <= max_requests
        /\ served_requests_count = wire.count
        /\ (wire.count > 0 /\ wire.served_before = max_requests - 1) => ClosedAfterLast

\* C1 where it goes wrong: one response written on a connection whose budget is 0.
C1_OverBudget == persistent /\ max_requests = 0 /\ wire.count = 1 /\ state.tag = "Read"

\* C2: a 400 or 408 response is written with Connection: close and is followed
\* by Close, whatever the keep-alive policy and the requests served.
C2_ClientErrorCloses ==
    (wire.count > 0 /\ wire.last.status_code \in {400, 408}) => ClosedAfterLast

\* C2 where it goes wrong: the connection reads on after a 400.
C2_ReadsOnAfter400 ==
    /\ wire.count > 0 /\ wire.last.status_code = 400
    /\ "Connection" \notin DOMAIN wire.last.headers
    /\ state.tag = "Read"

\* C3: while the state machine reads, every request handed to the dispatcher
\* has had its response written: the read and parse of a request start after
\* the write of the response to the request before it.
C3_Serialized ==
    (state.tag = "Read" /\ dispatched.count > 0) => wire.count > dispatched.at

\* C3 happens: the second request is being read after the first response.
C3_ReadsSecondAfterFirst ==
    /\ state.tag = "Read" /\ reader.read_bytes # <<>>
    /\ dispatched.count = 1 /\ wire.count = 1 /\ wire.request = dispatched.last

\* The peer has written one request, in one piece, and waits for the answer;
\* no read has timed out.
SentWhole(requests) ==
    /\ peer.sent = 1 /\ peer.writes = 1 /\ peer.whole \in requests
    /\ peer.mode = "open" /\ timeouts.count = 0

\* C4: a malformed request read in Read(None) is answered with a 400 with an
\* empty body and is not handed to the dispatcher.
C4_MalformedIs400 ==
    SentWhole(Malformed) =>
        /\ dispatched.count = 0
        /\ state.tag # "Panic"
        /\ wire.count > 0 => (wire.last.status_code = 400 /\ wire.last.body = <<>>)

\* C4 where it goes wrong: the worker panics on a Content-Length that is no number.
C4_PanicsOnLength == SentWhole({BadLengthLower}) /\ state.tag = "Panic" /\ wire.count = 0

\* C5: a read that times out in Read(None) is answered with one 408 with an
\* empty body, after which the connection is closed.
C5_IdleTimeout ==
    (timeouts.idle > 0 /\ peer.mode # "rst") =>
        \/ state.tag = "ClientError" /\ state.status_code = 408
        \/ state.tag = "SendResponse" /\ state.response.status_code = 408
        \/ /\ wire.request_timeouts = 1
           /\ wire.last.status_code = 408 /\ wire.last.body = <<>>
           /\ state.tag = "Close"

\* C5 where it goes wrong: the connection reads on after a 408.
C5_ReadsOnAfter408 ==
    /\ wire.count > 0 /\ wire.last.status_code = 408
    /\ state.tag = "Read" /\ reader.state = "Read"

\* C6: a request with Content-Length N that is handed to the dispatcher has a
\* body of N bytes.
C6_ContentLengthFraming ==
    (dispatched.count > 0 /\ content_length(dispatched.last).kind = "Some") =>
        Len(dispatched.last.body) = content_length(dispatched.last).length

\* C6 where it goes wrong: the peer sends two of three bytes and closes, and
\* the request is dispatched.
C6_ShortBodyDispatched ==
    /\ peer.whole = PostLengthShort /\ peer.sent = 1 /\ peer.mode = "fin"
    /\ dispatched.count = 1 /\ dispatched.via = "serve_content"
    /\ content_length(dispatched.last).length = 3 /\ Len(dispatched.last.body) = 2

\* The bytes of request r after the empty line that ends its head.
BodyBytes(r) ==
    Drop(r, (CHOOSE i \in 1..Len(r) : /\ SubSeq(r, i, i + 3) = DoubleCrlf
                                      /\ \A j \in 1..(i - 1) : SubSeq(r, j, j + 3) # DoubleCrlf) + 3)

\* The payloads of the chunks of a chunked body, each taken by the size its
\* chunk states, up to the chunk of size 0.
RECURSIVE ChunkPayloads(_)
ChunkPayloads(s) ==
    IF s = <<>> THEN <<>>
    ELSE Let(FirstIndex(s, CR), LAMBDA i :
         Let(DigitsValue(SubSeq(s, 1, i - 1)), LAMBDA size :
             IF size = 0 THEN <<>>
             ELSE SubSeq(s, i + 2, i + 1 + size) \o ChunkPayloads(Drop(s, i + 3 + size))))

\* The first request of the peer has been handed to the dispatcher with all
\* its bytes read and the payloads of its chunks as its body.
DispatchedAfterTerminator ==
    /\ peer.pending = <<>> /\ stream_in = <<>>
    /\ dispatched.last.body = ChunkPayloads(BodyBytes(peer.whole))

UnsplitResponse(r) ==
    Let(ReadHead(r).next, LAMBDA unsplit :
        ResponseToWrite(RulesApplied(unsplit.request, unsplit.response).response, wire.should_close))

\* C8: a valid request written in two pieces, with no timeout between them,
\* is answered as it is when written in one piece.
C8_SegmentationIndependence ==
    (/\ peer.sent = 1 /\ peer.writes = 2 /\ peer.whole \in WellFormed
     /\ peer.mode = "open" /\ timeouts.count = 0 /\ wire.count = 1) =>
        /\ dispatched.count = 1
        /\ wire.last = UnsplitResponse(peer.whole)

\* C8 where it goes wrong: a chunked request written in two pieces is answered 400.
C8_SplitChunkedIs400 ==
    /\ peer.sent = 1 /\ peer.writes = 2 /\ peer.whole = PostChunked
    /\ peer.mode = "open" /\ timeouts.count = 0
    /\ wire.count = 1 /\ wire.last.status_code = 400 /\ dispatched.count = 0

C10_ConnectionCloseCloses ==
    (/\ persistent /\ wire.count > 0 /\ wire.request # NoRequest
     /\ HeadersHas(wire.request.headers, B_Connection, B_close)) =>
        /\ wire.should_close
        /\ ClosedAfterLast
        /\ reader.state = "Before"

\* C10 happens: the first of two requests the budget allows asks to close.
C10_ClosesWithinBudget ==
    /\ persistent /\ max_requests = 2 /\ wire.count = 1 /\ wire.served_before = 0
    /\ wire.request # NoRequest /\ HeadersHas(wire.request.headers, B_Connection, B_close)
    /\ state.tag = "Close"

\* The header lines Headers::add was called with, in the order of the calls.
AddedLines ==
    IF unit.rejected THEN SubSeq(unit.lines, 1, Len(unit.lines) - 1) ELSE unit.lines

\* The value of the most recent add of a name equal to header_name ignoring case.
MostRecentValue(header_name) ==
    Let(CHOOSE k \in 1..Len(AddedLines) :
            /\ eq_ignore_ascii_case(header_name, AddedLines[k][1])
            /\ \A l \in (k + 1)..Len(AddedLines) : ~eq_ignore_ascii_case(header_name, AddedLines[l][1]),
        LAMBDA k : AddedLines[k][2])

\* The names of the lines, each where it is first seen ignoring case.
RECURSIVE FirstSeenNames(_, _)
FirstSeenNames(lines, seen) ==
    IF lines = <<>> THEN seen
    ELSE IF \E i \in 1..Len(seen) : eq_ignore_ascii_case(seen[i], lines[1][1])
         THEN FirstSeenNames(Tail(lines), seen)
         ELSE FirstSeenNames(Tail(lines), Append(seen, lines[1][1]))

\* C11: after any sequence of Headers::add calls no two stored entries have
\* names equal ignoring ASCII case, get(name) is the value of the most recent
\* add of that name ignoring case, and the entries are in the order in which
\* their names were first added.
C11_HeaderCollection ==
    /\ \A i, j \in 1..Len(unit.inner) :
          i # j => ~eq_ignore_ascii_case(unit.inner[i][1], unit.inner[j][1])
    /\ \A k \in 1..Len(AddedLines) :
          HeadersGet(unit.inner, AddedLines[k][1]) = MostRecentValue(AddedLines[k][1])
    /\ [i \in 1..Len(unit.inner) |-> unit.inner[i][1]] = FirstSeenNames(AddedLines, <<>>)

\* C11 where it goes wrong: the collection stores one name twice, and get
\* returns the value of the first add.
C11_StoresNameTwice ==
    /\ Len(AddedLines) = 2
    /\ Len(unit.inner) = 2
    /\ eq_ignore_ascii_case(unit.inner[1][1], unit.inner[2][1])
    /\ HeadersGet(unit.inner, unit.inner[2][1]) = AddedLines[1][2]
    /\ AddedLines[1][2] # AddedLines[2][2]

\* C12: a head with a header whose name is Content-Length ignoring case and
\* whose value is no non-negative integer is rejected, and content_length()
\* of a head that is not rejected never fails.
C12_ContentLengthValidated ==
    /\ (\E k \in 1..Len(unit.lines) :
           /\ eq_ignore_ascii_case(unit.lines[k][1], B_ContentLength)
           /\ ~IsUsize(unit.lines[k][2])) => unit.rejected
    /\ ~unit.rejected => content_length([headers |-> unit.inner]).kind # "Panic"

\* C12 where it goes wrong: content_length() fails on a head the loop accepted.
C12_LengthUnwrapFails ==
    /\ ~unit.rejected
    /\ Len(unit.lines) = 1
    /\ unit.lines[1][1] = B_content_length
    /\ content_length([headers |-> unit.inner]).kind = "Panic"


\* The url resolves to something that is not under the web root.
OutsideRoot(url) ==
    Let(canonicalize(RootPath, Components(trim_start_slashes(url))), LAMBDA canonical :
        canonical.ok /\ ~starts_with(canonical.path, RootPath))

\* The bytes of what the url resolves to.
ResolvedBytes(url) ==
    FileSystem[canonicalize(RootPath, Components(trim_start_slashes(url))).path].bytes

\* What the listener of the server answers to the request.
Heard(of_server, request) ==
    IF of_server.listener = "test" THEN TestListener(request)
    ELSE IF of_server.listener = "example" THEN ExampleListener(request)
    ELSE NoResponse

\* C13: for a url that resolves outside the web root get_content fails with
\* PermissionDenied, the response body holds no bytes of the file, and the
\* response is 404.
C13_WebRootConfinement ==
    (unit.via # "none" /\ OutsideRoot(unit.request.url)) =>
        /\ get_content(unit.request.url).error = "PermissionDenied"
        /\ ~Contains(unit.response.body, ResolvedBytes(unit.request.url))
        /\ unit.response.status_code = 404

\* C13 as amended: ... and the response is that of the user listener if it
\* answers the request, and 404 otherwise.
C13_WebRootConfinementWithListener ==
    (unit.via # "none" /\ OutsideRoot(unit.request.url)) =>
        /\ get_content(unit.request.url).error = "PermissionDenied"
        /\ ~Contains(unit.response.body, ResolvedBytes(unit.request.url))
        /\ IF Heard(unit.server, unit.request) # NoResponse
           THEN unit.response = Heard(unit.server, unit.request)
           ELSE unit.response.status_code = 404

\* C13 happens: a GET of /../s, a file next to the root, is answered with 404.
C13_ParentFileIs404 ==
    /\ unit.via = "prepare_response"
    /\ unit.request.method = "Get"
    /\ unit.request.url = <<"/", ".", ".", "/", "s">>
    /\ get_content(unit.request.url).error = "PermissionDenied"
    /\ unit.response.status_code = 404

\* C14: the listener is invoked only for a request whose url yields no file,
\* never for OPTIONS *, and when it returns no response the response is 404.
C14_ListenerOnlyWithoutFile ==
    (unit.via # "none" /\ unit.listened) =>
        /\ ~get_content(unit.request.url).ok
        /\ ~(unit.request.method = "Options" /\ unit.request.url = <<"*">>)
        /\ Heard(unit.server, unit.request) = NoResponse => unit.response.status_code = 404

\* C14 where it goes wrong: the listener is invoked for an OPTIONS * whose
\* body arrived after the head.
C14_ListenerHearsOptionsStar ==
    /\ unit.via = "serve_content"
    /\ unit.listened
    /\ unit.request.method = "Options"
    /\ unit.request.url = <<"*">>

\* C17: an OPTIONS request whose target is a path is answered with 204 and an
\* Allow header that lists GET, HEAD, OPTIONS.
C17_OptionsPath ==
    (unit.via # "none" /\ unit.request.method = "Options" /\ unit.request.url # <<"*">>) =>
        /\ unit.response.status_code = 204
        /\ "Allow" \in DOMAIN unit.response.headers
        /\ unit.response.headers["Allow"] = "GET, HEAD, OPTIONS"

\* C17 as amended: an OPTIONS request whose target is a path that resolves to
\* a readable file under the web root is answered so.
C17_OptionsPathOfFile ==
    (/\ unit.via # "none" /\ unit.request.method = "Options" /\ unit.request.url # <<"*">>
     /\ get_content(unit.request.url).ok) =>
        /\ unit.response.status_code = 204
        /\ "Allow" \in DOMAIN unit.response.headers
        /\ unit.response.headers["Allow"] = "GET, HEAD, OPTIONS"

\* C17 happens: OPTIONS /f is answered with 204 and Allow.
C17_OptionsFileIs204 ==
    /\ unit.via = "prepare_response"
    /\ unit.request.method = "Options"
    /\ unit.request.url = <<"/", "f">>
    /\ unit.response.status_code = 204
    /\ unit.response.headers["Allow"] = "GET, HEAD, OPTIONS"

\* C15: a request with an unsafe method (POST, PUT, PATCH, DELETE) for a url
\* that resolves to a readable file is answered with 405 and an Allow header
\* of exactly GET, HEAD, OPTIONS, without the contents of the file, and the
\* connection is closed after it only where the keep-alive policy closes it.
C15_UnsafeMethodOnFile ==
    (/\ wire.count > 0 /\ wire.request # NoRequest
     /\ wire.request.method \in {"Post", "Put", "Patch", "Delete"}
     /\ get_content(wire.request.url).ok) =>
        /\ wire.last.status_code = 405
        /\ "Allow" \in DOMAIN wire.last.headers
        /\ wire.last.headers["Allow"] = "GET, HEAD, OPTIONS"
        /\ ~Contains(wire.last.body, get_content(wire.request.url).bytes)
        /\ \A method \in {"Post", "Put", "Patch", "Delete"} :
              Let(prepare_response(server, [wire.request EXCEPT !.method = method]), LAMBDA response :
                  /\ response.status_code = 405
                  /\ "Allow" \in DOMAIN response.headers
                  /\ response.headers["Allow"] = "GET, HEAD, OPTIONS"
                  /\ ~Contains(response.body, get_content(wire.request.url).bytes))
        /\ (/\ persistent /\ wire.served_before + 1 < max_requests
            /\ ~HeadersHas(wire.request.headers, B_Connection, B_close)) =>
               /\ ~wire.should_close
               /\ "Connection" \notin DOMAIN wire.last.headers

\* C15 happens: a POST for the file f is answered with 405 on a connection
\* that stays open for the next request.
C15_PostFileIs405KeptOpen ==
    /\ wire.count = 1 /\ wire.request # NoRequest
    /\ wire.request.method = "Post" /\ wire.request.url = <<"/", "f">>
    /\ wire.last.status_code = 405
    /\ persistent /\ max_requests = 2
    /\ ~wire.should_close
    /\ state.tag = "Read"

\* C16: every complete OPTIONS * request is answered with 204, an empty body
\* and no Allow header, whether it was complete after the first read or
\* after a further read of its body.
C16_OptionsStar ==
    (/\ wire.count > 0 /\ wire.request # NoRequest
     /\ wire.request.method = "Options" /\ wire.request.url = <<"*">>) =>
        /\ wire.last.status_code = 204
        /\ wire.last.body = <<>>
        /\ "Allow" \notin DOMAIN wire.last.headers

\* C16 where it goes wrong: an OPTIONS * whose body arrived in a further
\* read is answered with 404.
C16_OptionsStarIs404 ==
    /\ wire.count > 0 /\ wire.request # NoRequest
    /\ wire.request.method = "Options" /\ wire.request.url = <<"*">>
    /\ dispatched.via = "serve_content"
    /\ wire.last.status_code = 404

\* The statement at a place of the rules at hand.
RECURSIVE StatementIn(_, _)
StatementIn(statements, place) ==
    IF Len(place) = 1 THEN statements[place[1]]
    ELSE StatementIn(statements[place[1]].statements, Tail(place))

StatementAt(place) == StatementIn(unit.rules[place[1]].statements, Tail(place))

\* Place p comes before place q in the file.
InFileOrder(p, q) ==
    \E i \in 1..Len(q) :
        /\ \A j \in 1..(i - 1) : j <= Len(p) /\ p[j] = q[j]
        /\ i > Len(p) \/ p[i] < q[i]

Terminating(place) == StatementAt(place).kind \in {"Redirect", "Return"}

\* C18: the statements that are run are those of matching rules, in file
\* order, every matching rule is run until one finishes, a rule that does not
\* match leaves the response as it was, and nothing is run after a
\* terminating statement, however deep it is nested: the response that is
\* written is the one it left.
C18_RuleChainOrdering ==
    unit.of = "rules" =>
        /\ \A i, j \in 1..Len(unit.trace) : i < j => InFileOrder(unit.trace[i], unit.trace[j])
        /\ \A i \in 1..Len(unit.trace) : Contains(unit.request.url, unit.rules[unit.trace[i][1]].pattern)
        /\ \A k \in 1..(unit.at - 1) :
              (Contains(unit.request.url, unit.rules[k].pattern) /\ unit.rules[k].statements # <<>>) =>
                  \E i \in 1..Len(unit.trace) : unit.trace[i] = <<k, 1>>
        /\ (/\ unit.at > 1 /\ unit.result = "Running"
            /\ ~Contains(unit.request.url, unit.rules[unit.at - 1].pattern)) => unit.response = unit.before
        /\ \A i \in 1..Len(unit.trace) :
              Terminating(unit.trace[i]) => i = Len(unit.trace) /\ unit.result \in {"Finish", "Written"}
        /\ unit.result = "Written" =>
              unit.written = ResponseToWrite(unit.response, should_close(unit.request, max_requests - 1))

\* C18 happens: the return nested in two ifs of the second rule has finished
\* the rules for GET /f, after the first rule did not match, and neither the
\* statements after the ifs nor the third rule have touched the response.
C18_NestedReturnFinishes ==
    /\ unit.of = "rules" /\ unit.result = "Written"
    /\ unit.rules = RuleFiles[1]
    /\ unit.trace = <<<<2, 1>>, <<2, 2>>, <<2, 2, 1>>, <<2, 2, 1, 1>>>>
    /\ unit.written.status_code = 403
    /\ "X-A" \in DOMAIN unit.written.headers
    /\ DOMAIN unit.written.headers \cap {"X-B", "X-C", "X-Tail"} = {}

\* C19: a runtime error in a rule (an unresolved identifier, an undefined
\* member, an operand of &&, || or if that is no boolean, a wrongly typed or
\* missing argument, a comparison of two kinds of value) ends the evaluation
\* of the rules for the request: no statement is run after the one that
\* raised it, and the worker goes on to write the response.
C19_RuntimeErrorsContained ==
    unit.of = "rules" =>
        /\ unit.result # "Panic"
        /\ unit.raised # <<>> => unit.trace[Len(unit.trace)] = unit.raised[1]

\* C19 where it goes wrong: the worker panics at set_header("a").
C19_PanicsOnFewArguments ==
    /\ unit.of = "rules" /\ unit.result = "Panic"
    /\ unit.trace # <<>>
    /\ StatementAt(unit.trace[Len(unit.trace)]) = [kind |-> "Func", name |-> "set_header", args |-> <<Str("a")>>]

\* C20: redirect sets the status and Location, return sets the status and,
\* with a body, the body and its Content-Length; both finish the rules and
\* leave every other header, and without a body the body, as they were.
C20_TerminatingStatements ==
    (unit.of = "rules" /\ unit.trace # <<>> /\ Terminating(unit.trace[Len(unit.trace)])) =>
        Let(StatementAt(unit.trace[Len(unit.trace)]), LAMBDA statement :
            /\ unit.result \in {"Finish", "Written"}
            /\ unit.response.status_code = statement.code
            /\ IF statement.kind = "Redirect"
               THEN /\ DOMAIN unit.response.headers = DOMAIN unit.prior.headers \cup {"Location"}
                    /\ unit.response.headers["Location"] = statement.location
                    /\ \A name \in DOMAIN unit.prior.headers \ {"Location"} :
                          unit.response.headers[name] = unit.prior.headers[name]
                    /\ unit.response.body = unit.prior.body
               ELSE IF statement.body # NoValue
               THEN /\ DOMAIN unit.response.headers = DOMAIN unit.prior.headers \cup {"Content-Length"}
                    /\ unit.response.headers["Content-Length"] = ToString(Len(statement.body))
                    /\ \A name \in DOMAIN unit.prior.headers \ {"Content-Length"} :
                          unit.response.headers[name] = unit.prior.headers[name]
                    /\ unit.response.body = statement.body
               ELSE /\ unit.response.headers = unit.prior.headers
                    /\ unit.response.body = unit.prior.body)

\* C20 happens: return 403 "no" has set the status, the body and its length
\* on a response that had headers, and these are as they were.
C20_ReturnWithBodyKeepsHeaders ==
    /\ unit.of = "rules" /\ unit.result = "Finish"
    /\ unit.trace # <<>> /\ Terminating(unit.trace[Len(unit.trace)])
    /\ StatementAt(unit.trace[Len(unit.trace)]).kind = "Return"
    /\ unit.response.status_code = 403
    /\ unit.response.body = <<"n", "o">>
    /\ unit.response.headers["Content-Length"] = "2"
    /\ "X-A" \in DOMAIN unit.prior.headers
    /\ "Content-Type" \in DOMAIN unit.prior.headers
    /\ unit.response.headers["Content-Type"] = unit.prior.headers["Content-Type"]

\* C21: a request parse_request accepts as complete is parsed again from its
\* as_bytes: the second parse succeeds, is complete, and yields the same
\* method, url, headers and body.
C21_RequestRoundTrip ==
    unit.again # NotParsed =>
        /\ unit.again.kind = "Ok"
        /\ unit.again.is_complete
        /\ unit.again.request = unit.parsed.request

\* GET / is serialized with the method as Get, which parse_request rejects.
C21_GetIsRejected ==
    /\ unit.bytes = GetRoot
    /\ unit.as_bytes = <<"G", "e", "t", " ", "/", " ", "H", "T", "T", "P", "/", "1", ".", "1", "\r", "\n", "\r", "\n">>
    /\ unit.again = ParseErr

\* The header of a response as the line "Name: Value" with its CRLF.
HeaderLine(response, header_name) ==
    <<header_name, ":", " ", response.headers[header_name], "\r", "\n">>

RECURSIVE HeaderLinesIn(_, _)
HeaderLinesIn(response, names) ==
    IF names = <<>> THEN <<>>
    ELSE HeaderLine(response, names[1]) \o HeaderLinesIn(response, Tail(names))

\* The status line, the headers in the order of names, one empty line, and
\* the body.
SerializedIn(response, names) ==
    B_Http1_1 \o <<" ">> \o DecimalDigits(response.status_code) \o <<" ">> \o ReasonPhrase(response.status_code)
        \o <<"\r", "\n">> \o HeaderLinesIn(response, names) \o <<"\r", "\n">> \o response.body

C23_DoneAtDoubleCrlf ==
    ~(/\ state.tag = "Read"
      /\ reader.state = "Read"
      /\ reader.read_strategy = UntilDoubleCrlf
      /\ Contains(reader.read_bytes, DoubleCrlf))

\* A request of exactly one buffer has been read whole, the peer sends
\* nothing more, and the transport is in the next stream.read.
C23_ReadsOnAfterFullBuffer ==
    /\ state.tag = "Read" /\ state.request = NoRequest
    /\ reader.state = "Read"
    /\ reader.read_strategy = UntilDoubleCrlf
    /\ reader.read_bytes = GetOfLength(StreamBufLen)
    /\ EndsWith(reader.read_bytes, DoubleCrlf)
    /\ stream_in = <<>> /\ peer.pending = <<>> /\ peer.mode = "open"
    /\ dispatched.count = 0

\* C24: when Connection::read returns no bytes in Read(None), the peer having
\* closed, or fails because the peer has reset the connection, the state
\* machine goes to Close: no response is written and no request is
\* dispatched.
C24_SilentClose ==
    [][(/\ state.tag = "Read" /\ reader.state = "Read"
        /\ \/ peer.mode = "rst"
           \/ /\ state.request = NoRequest /\ reader.read_bytes = <<>>
              /\ stream_in = <<>> /\ peer.mode = "fin"
        /\ state' # state)
       => (state'.tag = "Close" /\ wire' = wire /\ dispatched' = dispatched)]_vars

\* The peer has closed before it sent a request: Close, and nothing written
\* or dispatched.
C24_ClosedOnFin ==
    /\ state.tag = "Close"
    /\ peer.mode = "fin" /\ peer.sent = 0
    /\ wire.count = 0 /\ dispatched.count = 0

\* C26: in Read(Some(request)), a read that times out or finds the peer
\* closed before the body is complete leads to ClientError(Some(request),
\* 400), and the incomplete request is not dispatched.
C26_BodyReadFailureIs400 ==
    [][(/\ state.tag = "Read" /\ state.request # NoRequest
        /\ reader.state = "Read"
        /\ stream_in = <<>> /\ peer.mode \in {"open", "fin"}
        /\ state' # state)
       => (state' = StClientError(state.request, 400) /\ dispatched' = dispatched)]_vars

\* The one read that has timed out was a read of a body, and the state
\* machine answers it with 408 and without the request.
C26_BodyTimeoutIs408 ==
    /\ state = StClientError(NoRequest, 408)
    /\ timeouts.count = 1 /\ timeouts.idle = 0
    /\ wire.count = 0 /\ dispatched.count = 0

\* C27: in Read(Some(request)) with a Content-Length of N and k bytes of the
\* body held, a read of more than N - k bytes leads to ClientError(Some(
\* request), 400), and the request is not dispatched, for every k below N.
C27_OverReadIs400 ==
    [][(/\ state.tag = "Read" /\ state.request # NoRequest
        /\ body_type(state.request) = "ContentLength"
        /\ Len(state.request.body) < content_length(state.request).length
        /\ reader.state = "Read"
        /\ Len(reader.read_bytes) + Len(stream_in)
               > content_length(state.request).length - Len(state.request.body)
        /\ state' # state)
       => (state' = StClientError(state.request, 400) /\ dispatched' = dispatched)]_vars

\* A Content-Length of 3 with a body of 4 bytes, of which the head brought
\* some and a later read the rest: the 4 bytes are dispatched.
C27_LongBodyDispatched ==
    /\ dispatched.count = 1 /\ dispatched.via = "serve_content"
    /\ peer.whole = PostLengthLong
    /\ dispatched.last.body = <<"a", "b", "c", "d">>
    /\ content_length(dispatched.last).length = 3

HexDigits == <<"0", "1", "2", "3", "4", "5", "6", "7", "8", "9", "a", "b", "c", "d", "e", "f">>

\* The number a size line stands for in hexadecimal.
RECURSIVE HexValue(_)
HexValue(digits) ==
    IF digits = <<>> THEN 0
    ELSE 16 * HexValue(SubSeq(digits, 1, Len(digits) - 1))
             + (CHOOSE v \in 0..15 : HexDigits[v + 1] = digits[Len(digits)])

\* The chunks of the first bytes s of a well-formed chunked body, with the
\* size lines read as hexadecimal and a payload of exactly that many bytes:
\* the payload of the chunks that are whole, and whether the last chunk is
\* among them.
RECURSIVE DecodedChunks(_, _)
DecodedChunks(s, parsed) ==
    IF ~Contains(s, <<"\r", "\n">>) THEN [body |-> parsed, complete |-> FALSE]
    ELSE LET i == CHOOSE k \in 1..(Len(s) - 1) :
                      /\ SubSeq(s, k, k + 1) = <<"\r", "\n">>
                      /\ \A j \in 1..(k - 1) : SubSeq(s, j, j + 1) # <<"\r", "\n">>
             n == HexValue(SubSeq(s, 1, i - 1))
             rest == Drop(s, i + 1)
         IN  IF Len(rest) < n + 2 THEN [body |-> parsed, complete |-> FALSE]
             ELSE IF n = 0 THEN [body |-> parsed, complete |-> TRUE]
             ELSE DecodedChunks(Drop(rest, n + 2), parsed \o SubSeq(rest, 1, n))

\* C28: parse_chunked_body reads a size line as a hexadecimal number n and
\* takes exactly the next n bytes as the payload, CR and LF among them: a
\* well-formed chunked body is parsed as complete, with the payloads as its
\* body.
C28_HexChunkSizes ==
    (unit.result # NotParsed /\ unit.cut = Len(unit.whole)) =>
        /\ unit.result.kind = "Ok"
        /\ unit.result.complete
        /\ unit.result.body = DecodedChunks(unit.whole, <<>>).body

\* The chunk with the size line a and a payload of 10 bytes is rejected.
C28_HexTenRejected ==
    /\ unit.whole = ChunkOfHexTen /\ unit.cut = Len(unit.whole)
    /\ HexValue(<<"a">>) = 10
    /\ unit.result = ParseErr

\* C29: on the first bytes of a well-formed chunked body, cut at any
\* position before its end, parse_chunked_body returns the payload of the
\* chunks that are whole with complete = false, and no error.
C29_PartialChunkedBody ==
    (unit.result # NotParsed /\ unit.cut < Len(unit.whole)) =>
        /\ unit.result.kind = "Ok"
        /\ ~unit.result.complete
        /\ unit.result.body = DecodedChunks(SubSeq(unit.whole, 1, unit.cut), <<>>).body

\* The body is cut after the size line of its first chunk, and the parse
\* fails.
C29_CutAfterSizeLineFails ==
    /\ unit.whole = ChunksOneAndTwo /\ unit.cut = 3
    /\ unit.result = ParseErr

\* C30: a request with Content-Length: 0 is dispatched right after the read
\* of its head, by prepare_response and never from Read(Some(request)), and
\* with an empty body, whatever bytes the read brought after the head.
C30_ZeroLengthIsComplete ==
    (/\ dispatched.count > 0
     /\ content_length(dispatched.last).kind = "Some"
     /\ content_length(dispatched.last).length = 0)
    => (dispatched.via = "prepare_response" /\ dispatched.last.body = <<>>)

\* The two bytes that came with the head of a Content-Length: 0 request are
\* the body of the dispatched request.
C30_TrailingBytesAreBody ==
    /\ dispatched.count = 1 /\ dispatched.via = "prepare_response"
    /\ peer.whole = PostLengthZero /\ peer.writes = 1
    /\ content_length(dispatched.last).length = 0
    /\ dispatched.last.body = <<"x", "y">>

\* C25: with the stop flag set, an acceptor that checks the flag terminates
\* and reports on the channel; run returns only after an acceptor has
\* reported; and every connection an acceptor has accepted has a worker
\* thread of its own.
C25_ShutdownProtocol ==
    /\ \A i \in DOMAIN unit.acceptors :
          /\ unit.acceptors[i] \in {"incoming", "check", "send", "done"}
          /\ unit.acceptors[i] \in {"send", "done"} => unit.stop
          /\ unit.acceptors[i] = "done" => i \in unit.reported
    /\ unit.run = "returned" => unit.reported # {}
    /\ Len(unit.workers) + unit.backlog[1] + (IF 2 \in DOMAIN unit.backlog THEN unit.backlog[2] ELSE 0)
           = unit.connections

\* run has returned on the report of the first acceptor; the second acceptor
\* has accepted a connection, handed it to a worker, checked the flag, and
\* panicked in its send.
C25_SecondAcceptorPanics ==
    /\ unit.stop /\ unit.run = "returned"
    /\ unit.reported = {1}
    /\ DOMAIN unit.acceptors = {1, 2}
    /\ unit.acceptors[2] = "panicked"
    /\ \E w \in DOMAIN unit.workers : unit.workers[w].by = 2

C32_KeepAliveHeader ==
    unit.via # "none" =>
        /\ "Keep-Alive" \in DOMAIN unit.response.headers =>
               (unit.server.keep_alive.on /\ unit.server.keep_alive.include_header)
        /\ (/\ unit.server.keep_alive.on /\ unit.server.keep_alive.include_header
            /\ unit.request.method \in {"Get", "Head"}
            /\ get_content(unit.request.url).ok) =>
               /\ "Keep-Alive" \in DOMAIN unit.response.headers
               /\ unit.response.headers["Keep-Alive"]
                      = "timeout=" \o ToString(unit.server.keep_alive.timeout) \o ", max="
                            \o ToString(unit.server.keep_alive.max_requests)

\* GET /f under On with include_header: 200 with Keep-Alive: timeout=1, max=2.
C32_FileAnnouncesPolicy ==
    /\ unit.via = "prepare_response"
    /\ unit.request.method = "Get" /\ unit.request.url = <<"/", "f">>
    /\ unit.server.keep_alive = KeepAliveOn(MaxBudget)
    /\ unit.response.status_code = 200
    /\ unit.response.headers["Keep-Alive"] = "timeout=1, max=2"

\* The condition compares request.method with a string.
MethodCondition(condition_expr) ==
    /\ condition_expr.e = "Expr"
    /\ condition_expr.operator \in {"Eq", "NotEq"}
    /\ condition_expr.lhs = Binary(Ident("request"), "Dot", Ident("method"))
    /\ condition_expr.rhs = LitStr(condition_expr.rhs.s)

\* Such a condition is true of the request at hand.
ConditionHolds(condition_expr) ==
    (unit.request.method = condition_expr.rhs.s) <=> (condition_expr.operator = "Eq")

\* Place q is inside the block of the statement at place p.
Inside(p, q) == Len(p) < Len(q) /\ SubSeq(q, 1, Len(p)) = p

\* The statements of the block the statement at place p stands in.
BlockOf(p) ==
    IF Len(p) = 2 THEN unit.rules[p[1]].statements
    ELSE StatementAt(SubSeq(p, 1, Len(p) - 1)).statements

\* The place of the statement after the one at place p.
NextPlace(p) == [p EXCEPT ![Len(p)] = @ + 1]

\* C33: an if statement is evaluated once.  With a true condition its inner
\* statements are run in order from the first, the block finishes the rules
\* if one of them is a return or a redirect, and otherwise the statement
\* after the if is run.  With a false condition no inner statement is run
\* and the statement after the if is.
C33_IfStatement ==
    unit.of = "rules" =>
        \A i \in 1..Len(unit.trace) :
            Let(unit.trace[i], LAMBDA p :
            (StatementAt(p).kind = "If" /\ MethodCondition(StatementAt(p).condition_expr)) =>
                /\ \A j \in 1..Len(unit.trace) : unit.trace[j] = p => j = i
                /\ IF ConditionHolds(StatementAt(p).condition_expr)
                   THEN /\ StatementAt(p).statements # <<>> =>
                               (i < Len(unit.trace) /\ unit.trace[i + 1] = Append(p, 1))
                        /\ \A j \in 1..Len(unit.trace) :
                               (Inside(p, unit.trace[j]) /\ Terminating(unit.trace[j])) =>
                                   (j = Len(unit.trace) /\ unit.result \in {"Finish", "Written"})
                        /\ (/\ \A j \in 1..Len(unit.trace) :
                                   Inside(p, unit.trace[j]) => ~Terminating(unit.trace[j])
                            /\ p[Len(p)] < Len(BlockOf(p))) =>
                               (/\ \A k \in 1..Len(StatementAt(p).statements) :
                                       \E j \in 1..Len(unit.trace) : unit.trace[j] = Append(p, k)
                                /\ \E j \in 1..Len(unit.trace) : unit.trace[j] = NextPlace(p))
                   ELSE /\ \A j \in 1..Len(unit.trace) : ~Inside(p, unit.trace[j])
                        /\ p[Len(p)] < Len(BlockOf(p)) =>
                               (i < Len(unit.trace) /\ unit.trace[i + 1] = NextPlace(p)))

\* POST /f under the rule with one if: the condition is false, X-D and X-E
\* are not set, and X-F, after the if, is.
C33_FalseBranchSkipped ==
    /\ unit.of = "rules" /\ unit.result = "Written"
    /\ unit.rules = <<RuleBranch, RuleTail>>
    /\ unit.request.method = "Post"
    /\ unit.trace = <<<<1, 1>>, <<1, 2>>, <<2, 1>>>>
    /\ DOMAIN unit.written.headers \cap {"X-D", "X-E"} = {}
    /\ "X-F" \in DOMAIN unit.written.headers

\* The statements the grammar of the rule language has.
GrammarForms == {FormCall, FormRedirect, FormReturn, FormIf}

\* The place of the first token of the k-th statement of the rule body.
FormStart(forms, k) == 4 + Len(Flatten(SubSeq(forms, 1, k - 1)))

\* The first return of the rule body that is not its last statement, 0 if
\* there is none.
ReturnFollowed(forms) ==
    IF \E k \in 1..(Len(forms) - 1) : forms[k] = FormReturn
    THEN CHOOSE k \in 1..(Len(forms) - 1) :
             forms[k] = FormReturn /\ \A j \in 1..(k - 1) : forms[j] # FormReturn
    ELSE 0

\* C34: a block with a statement after a return is rejected with a semantic
\* error at that statement, and a block whose return is its last statement
\* is accepted; the block is the body of a rule or the body of an if.
C34_StatementAfterReturn ==
    (/\ unit.of = "load" /\ unit.stage = "started"
     /\ \A k \in 1..Len(unit.forms) : unit.forms[k] \in GrammarForms) =>
        IF ReturnFollowed(unit.forms) > 0
        THEN /\ unit.logged.error = "Semantic"
             /\ unit.logged.position = FormStart(unit.forms, ReturnFollowed(unit.forms) + 1)
             /\ unit.rules = <<>>
        ELSE /\ unit.logged.error = "none"
             /\ Len(unit.rules) = 1

\* The rule body is one if whose block ends with its return: the file is
\* rejected with a syntax error at the keyword if.
C34_IfBlockRejected ==
    /\ unit.of = "load" /\ unit.stage = "started"
    /\ unit.forms = <<FormIf>>
    /\ unit.logged = [error |-> "Syntax", detail |-> "UnexpectedToken", position |-> 4]
    /\ unit.rules = <<>>

\* The rules file of the unit is one Server::new has to give up on: there is
\* no file, a string is not terminated, a call is not closed, a status code
\* is not a recognized one, or a statement follows a return.
RulesFileFails ==
    \/ unit.on_disk = NoFile
    \/ \E k \in 1..Len(unit.forms) : unit.forms[k] \in {FormUnterminated, FormUnclosed, FormReturnUnknown}
    \/ ReturnFollowed(unit.forms) > 0

\* C35: Server::new yields a server for every rules file; for a file that
\* is missing or fails to load the error is logged, the server has no rules,
\* and the response of the dispatcher is written as it is.
C35_LoadingNeverPreventsStart ==
    (unit.of = "load" /\ unit.stage # "configured") =>
        /\ unit.stage \in {"started", "served"}
        /\ RulesFileFails =>
               /\ unit.rules = <<>>
               /\ unit.on_disk # NoFile => unit.logged.error \in {"Syntax", "Semantic"}
               /\ unit.stage = "served" => unit.written = unit.response

\* There is no file at the rules_path: Server::new has panicked.
C35_MissingFilePanics ==
    /\ unit.of = "load" /\ unit.stage = "panicked"
    /\ unit.on_disk = NoFile
    /\ unit.rules = <<>> /\ unit.logged.error = "none"

\* C36: with a TLS session the read state machine is never in the plaintext
\* Read state, and no byte of its buffer comes from the socket as it is.
C36_TlsNeverReadsPlain ==
    (unit.of = "tls" /\ unit.tls) => (unit.state # "Read" /\ unit.from_socket = 0)

\* A request head in two TLS records: the strategy is not satisfied after
\* the first, the machine has read the second from the socket as it is, and the
\* read returns with the bytes of the record in the buffer.
C36_CiphertextInBuffer ==
    /\ unit.of = "tls" /\ unit.tls /\ unit.state = "Done"
    /\ unit.read_strategy = UntilDoubleCrlf
    /\ unit.from_socket > 0
    /\ \E k \in 1..4 : unit.read_bytes = SubSeq(GetRoot, 1, k) \o Ciphertext(TwoRecords(GetRoot, k)[2])

\* C37: in Read(Some(request)) of a request with a Content-Length of N bytes
\* the body read so far is shorter than N, so N minus its length is positive.
C37_BodyShorterThanLength ==
    (/\ state.tag = "Read" /\ state.request # NoRequest
     /\ body_type(state.request) = "ContentLength") =>
        Len(state.request.body) < content_length(state.request).length

\* The first read has brought more body bytes than the Content-Length: the
\* state is Read(Some(request)), and the length of the read strategy is the
\* difference wrapped around.
C37_LengthWrapped ==
    /\ state.tag = "Read" /\ state.request # NoRequest
    /\ body_type(state.request) = "ContentLength"
    /\ Len(state.request.body) > content_length(state.request).length
    /\ env.overflow = "wrapping"
    /\ reader.state = "Read"
    /\ reader.read_strategy =
           UntilNoBytesRead(content_length(state.request).length - Len(state.request.body) + UsizeModulus)

\* C38: where send_response computes max_requests - 1 the difference is not
\* negative, and a connection of a keep-alive policy with max_requests 0 or
\* 1 is closed with its first response.
C38_BudgetWellDefined ==
    /\ (state.tag = "SendResponse" /\ persistent) => max_requests - 1 >= 0
    /\ (persistent /\ max_requests <= 1) =>
           /\ wire.count <= 1
           /\ wire.count = 1 => (wire.should_close /\ state.tag # "Read")

\* Keep-alive with max_requests 0 in a build that wraps: the connection has
\* written two responses and is open.
C38_ZeroBudgetServesOn ==
    /\ persistent /\ max_requests = 0
    /\ env.overflow = "wrapping"
    /\ wire.count = 2 /\ ~wire.should_close
    /\ served_requests_count = 2
    /\ state.tag = "Read"

\* C40: parse_request and the code that inspects its result return for
\* every byte sequence: the worker of a connection is not aborted by the
\* bytes of a request.  (An abort with env.overflow "checked" is the one of
\* an arithmetic overflow, not of the parser.)
C40_ParsingTotal ==
    state.tag = "Panic" => env.overflow = "checked"

\* The peer has sent a request whose method is not UTF-8, or one with a
\* lower-case content-length that is no number: the worker has panicked and
\* nothing was written.
C40_WorkerAborted ==
    /\ state.tag = "Panic" /\ env.overflow = "unset"
    /\ peer.whole \in {BadMethodByte, BadLengthLower}
    /\ wire.count = 0
    /\ dispatched.count = 0

\* C39: a connection started in New reaches Close or Error (here: unless the
\* read timeouts of the model are used up), and in Close or Error the worker
\* reads and writes nothing more.
C39_Terminates ==
    /\ <>(state.tag \in {"Close", "Error"} \/ timeouts.count = MaxTimeouts)
    /\ [][state.tag \in {"Close", "Error"} =>
              (state' = state /\ reader' = reader /\ wire' = wire /\ stream_in' = stream_in)]_vars

\* The worker has panicked on the first request, with read timeouts left:
\* the state machine is in neither Close nor Error, and nothing was written.
C39_WorkerGone ==
    /\ state.tag = "Panic"
    /\ timeouts.count < MaxTimeouts
    /\ peer.whole = BadLengthLower /\ peer.sent = 1
    /\ reader = ReaderBefore
    /\ wire.count = 0
====
